---------------------------- MODULE Spec2Model ----------------------------
(***************************************************************************)
(* A model of bffnt.py (0xAdk/3dstools): the BFFNT container reader and    *)
(* writer (Bffnt.read / Bffnt.save), the manifest loader (Bffnt.load), the *)
(* pixel format codec (_get_pixel_data / _get_tglp_pixel_data), the tile   *)
(* traversal (visit_pixels) and the ETC1 block decoder (_decompress_etc1). *)
(*                                                                         *)
(* Two specifications share the module:                                    *)
(*   Spec       the container: an object, filled by load() from a manifest *)
(*              or by the caller, is saved to a file, the file may be      *)
(*              altered on disk, and new objects read it section by        *)
(*              section;                                                   *)
(*   SpecCodec  the pure functions: one pixel encoded and decoded in one   *)
(*              format, one traversal of a sheet, and one compressed sheet *)
(*              decoded.                                                   *)
(***************************************************************************)
EXTENDS Integers, Sequences, FiniteSets, TLC

VARIABLES
    px,      \* SpecCodec: one pixel through the codec [fmt, p, index, data, out, stage]
    tv,      \* SpecCodec: one traversal [width, height, visits, stage]
    etc,     \* SpecCodec: one compressed sheet [fmt, order, width, height, data, bmp, stage]
    obj,     \* Spec: the Bffnt object that save() writes (as load() or the caller set it)
    png,     \* Spec: the sheet image files save() opens, one per sheet
    disk,    \* Spec: the container file [b: position -> byte, len]
    wr,      \* Spec: what the last save() did [raised, layout, ...]
    cls,     \* Spec: the class attributes shared by all objects [cwdh_sections, cmap_sections]
    rd,      \* Spec: the Bffnt object that read() fills
    pc,      \* Spec: where the program is
    hist,    \* Spec: the sections the current read() has parsed so far, in order
    edited,  \* Spec: whether the file was altered on disk after save() wrote it
    nreads,  \* Spec: how many objects have started a read()
    manifest \* Spec: the JSON manifest load() opens [version, ..., glyphWidths, glyphMap]

vars == <<px, tv, etc, obj, png, disk, wr, cls, rd, pc, hist, edited, nreads, manifest>>

-----------------------------------------------------------------------------
(* Integer helpers: Python's >>, <<, & and | on non-negative integers.     *)

Shr(v, n) == v \div (2 ^ n)

Shl(v, n) == v * (2 ^ n)

RECURSIVE BitAnd(_, _)
BitAnd(a, b) ==
    IF a = 0 \/ b = 0 THEN 0
    ELSE (IF a % 2 = 1 /\ b % 2 = 1 THEN 1 ELSE 0) + 2 * BitAnd(a \div 2, b \div 2)

RECURSIVE BitOr(_, _)
BitOr(a, b) ==
    IF a = 0 THEN b
    ELSE IF b = 0 THEN a
    ELSE (IF a % 2 = 1 \/ b % 2 = 1 THEN 1 ELSE 0) + 2 * BitOr(a \div 2, b \div 2)

Max(a, b) == IF a >= b THEN a ELSE b

Min(a, b) == IF a <= b THEN a ELSE b

\* F applied to the value of e. (TLC evaluates a LET name anew at each use;
\* a bound variable holds a value, computed once.)
Let(e, F(_)) == CHOOSE r \in {F(v) : v \in {e}} : TRUE

\* data[a:b] of a Python sequence held as a TLA+ sequence (0-based a, b >= 0)
PySlice(s, a, b) ==
    LET lo == Min(a, Len(s))
        hi == Min(b, Len(s))
    IN IF hi <= lo THEN <<>> ELSE SubSeq(s, lo + 1, hi)

-----------------------------------------------------------------------------
(* class Format                                                            *)

Formats ==
    {"RGBA8", "RGB8", "RGBA5551", "RGB565", "RGBA4", "LA8", "HILO8",
     "L8", "A8", "LA4", "L4", "A4", "ETC1", "ETC1A4"}

FormatValue(f) ==
    CASE f = "RGBA8" -> 0 [] f = "RGB8" -> 1 [] f = "RGBA5551" -> 2
      [] f = "RGB565" -> 3 [] f = "RGBA4" -> 4 [] f = "LA8" -> 5
      [] f = "HILO8" -> 6 [] f = "L8" -> 7 [] f = "A8" -> 8
      [] f = "LA4" -> 9 [] f = "L4" -> 10 [] f = "A4" -> 11
      [] f = "ETC1" -> 12 [] f = "ETC1A4" -> 13

format_size(f) ==
    CASE f = "RGBA8" -> 32 [] f = "RGB8" -> 24 [] f = "RGBA5551" -> 16
      [] f = "RGB565" -> 16 [] f = "RGBA4" -> 16 [] f = "LA8" -> 16
      [] f = "HILO8" -> 16 [] f = "L8" -> 8 [] f = "A8" -> 8
      [] f = "LA4" -> 8 [] f = "L4" -> 4 [] f = "A4" -> 4
      [] f = "ETC1" -> 64 [] f = "ETC1A4" -> 128

-----------------------------------------------------------------------------
(* Pixel format codec                                                      *)

\* The grey levels v for which the double sum v*0.2126 + v*0.7152 + v*0.0722
\* falls just below v, so that int() truncates it to v - 1 (IEEE-754 doubles).
GreyLumaBelow ==
    {5, 7, 10, 13, 14, 20, 26, 28, 40, 43, 49, 51, 52, 56, 59, 63,
     80, 83, 86, 89, 95, 98, 101, 102, 104, 105, 107, 112, 115, 118, 126, 157,
     160, 166, 172, 178, 179, 185, 190, 191, 193, 196, 199, 202, 204, 205, 208, 210,
     211, 214, 221, 224, 227, 230, 233, 236, 239, 245, 249, 251, 252, 255}

\* int(red * 0.2126 + green * 0.7152 + blue * 0.0722): the double sum is within
\* 1e-12 of the exact value, so truncation differs from the exact floor only
\* where the exact value is an integer; the grey pixels where it does are listed
\* (of the pixels the specifications draw, only grey ones have an integer sum).
Luma(red, green, blue) ==
    LET n == 2126 * red + 7152 * green + 722 * blue
    IN IF red = green /\ green = blue /\ red \in GreyLumaBelow
       THEN (n \div 10000) - 1
       ELSE n \div 10000

\* struct.unpack of a slice shorter than the format raises struct.error
StructError == <<"struct.error">>

\* _get_pixel_data: the RGBA8 pixel stored for pixel `index` in `data`
get_pixel_data(format_, data, index) ==
    LET two == PySlice(data, index * 2, index * 2 + 2)
        one == PySlice(data, index, index + 1)
    IN
    CASE format_ = "RGBA8" ->
            LET s == PySlice(data, index * 4, index * 4 + 4)
            IN IF Len(s) # 4 THEN StructError ELSE <<s[1], s[2], s[3], s[4]>>
      [] format_ = "RGB8" ->
            LET s == PySlice(data, index * 3, index * 3 + 3)
            IN IF Len(s) # 3 THEN StructError ELSE <<s[1], s[2], s[3], 255>>
      [] format_ = "RGBA5551" ->
            IF Len(two) # 2 THEN StructError
            ELSE LET b1 == two[1]
                     b2 == two[2]
                 IN <<BitAnd(Shr(b1, 3), 31),
                      BitOr(BitAnd(b1, 7), BitAnd(Shr(b2, 6), 3)),
                      BitAnd(Shr(b2, 1), 31),
                      BitAnd(b2, 1) * 255>>
      [] format_ = "RGB565" ->
            IF Len(two) # 2 THEN StructError
            ELSE LET b1 == two[1]
                     b2 == two[2]
                 IN <<BitAnd(Shr(b1, 3), 31),
                      BitOr(BitAnd(b1, 7), BitAnd(Shr(b2, 5), 7)),
                      BitAnd(b2, 31),
                      255>>
      [] format_ = "RGBA4" ->
            IF Len(two) # 2 THEN StructError
            ELSE LET b1 == two[1]
                     b2 == two[2]
                     red == BitAnd(Shr(b1, 4), 15) * 17
                     alpha == BitAnd(b1, 15) * 17
                     blue == BitAnd(Shr(b2, 4), 15) * 17
                     green == BitAnd(b2, 15) * 17
                 IN <<red, green, blue, alpha>>
      [] format_ = "LA8" ->
            IF Len(two) # 2 THEN StructError
            ELSE <<two[1], two[1], two[1], two[2]>>
      [] format_ = "HILO8" -> <<0, 0, 0, 0>>
      [] format_ = "L8" ->
            IF Len(one) # 1 THEN StructError
            ELSE <<one[1], one[1], one[1], 255>>
      [] format_ = "A8" ->
            IF Len(one) # 1 THEN StructError
            ELSE <<255, 255, 255, one[1]>>
      [] format_ = "LA4" ->
            IF Len(one) # 1 THEN StructError
            ELSE LET l == BitAnd(Shr(one[1], 4), 15) * 17
                 IN <<l, l, l, BitAnd(one[1], 15) * 17>>
      [] format_ = "L4" ->
            LET l0 == data[(index \div 2) + 1]
                l == BitAnd(IF index % 2 = 1 THEN Shr(l0, 4) ELSE l0, 15)
            IN <<l * 17, l * 17, l * 17, 255>>
      [] format_ = "A4" ->
            LET a0 == data[(index \div 2) + 1]
                a == BitAnd(IF index % 2 = 1 THEN Shr(a0, 4) ELSE a0, 15)
            IN <<255, 255, 255, a * 17>>
      [] OTHER -> <<0, 0, 0, 0>>

\* _get_tglp_pixel_data: the bytes that store pixel bmp[index] in format_
get_tglp_pixel_data(bmp, index, format_) ==
    LET red == bmp[index + 1][1]
        green == bmp[index + 1][2]
        blue == bmp[index + 1][3]
        alpha == bmp[index + 1][4]
    IN
    CASE format_ = "RGBA8" -> <<red, green, blue, alpha>>
      [] format_ = "RGB8" -> <<red, green, blue>>
      [] format_ = "RGBA5551" ->
            LET r5 == BitAnd(red \div 8, 31)
                g5 == BitAnd(green \div 8, 31)
                b5 == BitAnd(blue \div 8, 31)
                a == IF alpha > 0 THEN 1 ELSE 0
            IN <<BitOr(Shl(r5, 3), Shr(g5, 2)),
                 BitAnd(BitOr(BitOr(Shl(g5, 6), Shl(b5, 1)), a), 255)>>
      [] format_ = "RGB565" ->
            LET r5 == BitAnd(red \div 8, 31)
                g6 == BitAnd(green \div 4, 63)
                b5 == BitAnd(blue \div 8, 31)
            IN <<BitOr(Shl(r5, 3), Shr(g6, 3)),
                 BitAnd(BitOr(Shl(g6, 5), b5), 255)>>
      [] format_ = "RGBA4" ->
            LET r4 == BitAnd(red \div 17, 15)
                g4 == BitAnd(green \div 17, 15)
                b4 == BitAnd(blue \div 17, 15)
                a4 == BitAnd(alpha \div 17, 15)
            IN <<BitOr(Shl(r4, 4), g4), BitOr(Shl(b4, 4), a4)>>
      [] format_ = "LA8" -> <<Luma(red, green, blue), alpha>>
      [] format_ = "L8" -> <<Luma(red, green, blue)>>
      [] format_ = "A8" -> <<alpha>>
      [] format_ = "LA4" ->
            <<BitOr(Shl(Luma(red, green, blue) \div 17, 4), BitAnd(alpha \div 17, 15))>>
      [] format_ = "L4" -> <<Shl(Luma(red, green, blue), (index % 2) * 4)>>
      [] format_ = "A4" -> <<Shl(BitAnd(alpha \div 17, 15), (index % 2) * 4)>>
      [] OTHER -> <<>>     \* assert_never raises: no bytes

-----------------------------------------------------------------------------
(* Tile traversal: visit_pixels                                            *)

\* line 893
PixelX(x3, x2, x, tile_x) == x3 + (x2 * 2) + (x * 4) + (tile_x * 8)

\* line 894
PixelY(y3, y2, y, tile_y) == y3 + (y2 * 2) + (y * 4) + (tile_y * 8)

\* line 896
DataX(x3, x2, x, tile_x) == x3 + (x2 * 4) + (x * 16) + (tile_x * 64)

\* line 897, with a slip: the y3 row of a pixel pair weighted 1 instead of 2
DataYSlip(y3, y2, y, tile_y, width) == y3 + (y2 * 8) + (y * 32) + (tile_y * width * 8)

\* line 897
DataY(y3, y2, y, tile_y, width) == (y3 * 2) + (y2 * 8) + (y * 32) + (tile_y * width * 8)

\* The k-th iteration (k = 0, 1, ...) of the eight nested loops, outermost first:
\* tile_y, tile_x, y, x, y2, x2, y3, x3.
LoopPoint(k, width) ==
    LET tile_width == width \div 8
        tile == k \div 64
        w == k % 64
        tile_y == tile \div tile_width
        tile_x == tile % tile_width
        y == w \div 32
        x == (w \div 16) % 2
        y2 == (w \div 8) % 2
        x2 == (w \div 4) % 2
        y3 == (w \div 2) % 2
        x3 == w % 2
        pixel_x == PixelX(x3, x2, x, tile_x)
        pixel_y == PixelY(y3, y2, y, tile_y)
    IN [pixel_x |-> pixel_x,
        pixel_y |-> pixel_y,
        sheet_data_pos |-> DataX(x3, x2, x, tile_x) + DataY(y3, y2, y, tile_y, width),
        bmp_pos |-> pixel_x + (pixel_y * width)]

\* visit_pixels: the calls of the visitor, in order; len_bmp = len(bmp),
\* len_data = len(sheet_data). The two `continue`s skip what lies outside them.
visit_pixels(width, height, format_, len_bmp, len_data) ==
    LET n == (width \div 8) * (height \div 8) * 64
        all == [k \in 1..n |-> LoopPoint(k - 1, width)]
        Kept(v) ==
            /\ ~(v.bmp_pos >= len_bmp)
            /\ ~((v.sheet_data_pos * format_size(format_)) \div 8 >= len_data)
    IN SelectSeq(all, Kept)

-----------------------------------------------------------------------------
(* Module constants of bffnt.py                                            *)

VERSIONS == {67108864, 50331648}     \* (0x04000000, 0x03000000)

FFNT_HEADER_SIZE == 20

FINF_HEADER_SIZE == 32

TGLP_HEADER_SIZE == 32

CWDH_HEADER_SIZE == 16

CMAP_HEADER_SIZE == 20

\* Magic tags as their ASCII bytes
MagicFFNT == <<70, 70, 78, 84>>

MagicFFNU == <<70, 70, 78, 85>>

FFNT_HEADER_MAGIC == {MagicFFNT, MagicFFNU}

FINF_HEADER_MAGIC == <<70, 73, 78, 70>>

TGLP_HEADER_MAGIC == <<84, 71, 76, 80>>

CWDH_HEADER_MAGIC == <<67, 87, 68, 72>>

CMAP_HEADER_MAGIC == <<67, 77, 65, 80>>

MAPPING_DIRECT == 0

MAPPING_TABLE == 1

MAPPING_SCAN == 2

TGLP_DATA_OFFSET == 8192

-----------------------------------------------------------------------------
(* struct.pack / struct.unpack in a byte order ('<' or '>'), and files     *)

\* struct.pack('%sH' % order, v)
PackH(order, v) ==
    IF order = "<" THEN <<v % 256, v \div 256>> ELSE <<v \div 256, v % 256>>

\* struct.pack('%sI' % order, v)
PackI(order, v) ==
    LET b0 == v % 256
        b1 == (v \div 256) % 256
        b2 == (v \div 65536) % 256
        b3 == v \div 16777216
    IN IF order = "<" THEN <<b0, b1, b2, b3>> ELSE <<b3, b2, b1, b0>>

\* struct.pack('b', v): a signed byte as its two's complement
PackSByte(v) == IF v < 0 THEN v + 256 ELSE v

\* struct.unpack('%sH' % order, s)
UnpackH(order, s) ==
    IF order = "<" THEN s[1] + 256 * s[2] ELSE s[2] + 256 * s[1]

\* struct.unpack('%sI' % order, s)
UnpackI(order, s) ==
    IF order = "<"
    THEN s[1] + 256 * s[2] + 65536 * s[3] + 16777216 * s[4]
    ELSE s[4] + 256 * s[3] + 65536 * s[2] + 16777216 * s[1]

\* struct.unpack('b', s)
UnpackSByte(b) == IF b >= 128 THEN b - 256 ELSE b

\* A file: the bytes written so far (b, by position; a position inside the file
\* that was never written reads 0, as after seek() past the end) and its length.
EmptyFile == [b |-> <<>>, len |-> 0]

WriteBytes(f, pos, bytes_) ==
    IF Len(bytes_) = 0 THEN f
    ELSE [b |-> [i \in pos..(pos + Len(bytes_) - 1) |-> bytes_[i - pos + 1]] @@ f.b,
          len |-> Max(f.len, pos + Len(bytes_))]

\* file_.seek(pos); file_.write(bytes_)
Write(f, pos, bytes_) ==
    Let(f, LAMBDA fv : Let(bytes_, LAMBDA bs : WriteBytes(fv, pos, bs)))

ByteAt(f, i) == IF i \in DOMAIN f.b THEN f.b[i] ELSE 0

\* Python's slice bound i clipped to a sequence of length n
PyIdx(i, n) == IF i < 0 THEN Max(n + i, 0) ELSE Min(i, n)

\* data[a:b] of the file's bytes
FileSlice(f, a, b) ==
    LET lo == PyIdx(a, f.len)
        hi == PyIdx(b, f.len)
    IN [i \in 1..Max(hi - lo, 0) |-> ByteAt(f, lo + i - 1)]

-----------------------------------------------------------------------------
(* Sheet assembly                                                          *)

\* 1 << int(math.ceil(math.log(n, 2))) for n >= 1
RECURSIVE PowerOfTwoFrom(_, _)
PowerOfTwoFrom(p, n) == IF p >= n THEN p ELSE PowerOfTwoFrom(2 * p, n)

PowerOfTwoBoundary(n) == PowerOfTwoFrom(1, n)

\* sheet_data[pos:pos + len(bytes_)] = bytes_ on a Python list
SliceAssign(data, pos, bytes_) ==
    LET lo == Min(pos, Len(data))
        hi == Min(pos + Len(bytes_), Len(data))
    IN SubSeq(data, 1, lo) \o bytes_ \o SubSeq(data, hi + 1, Len(data))

\* The visitor of _bitmap_to_sheet (lines 1030-1039)
EncodeVisitor(format_, bmp, bmp_pos, sheet_data, sheet_data_pos) ==
    LET bytes_ == get_tglp_pixel_data(bmp, bmp_pos, format_)
    IN IF Len(bytes_) > 1
       THEN SliceAssign(sheet_data, sheet_data_pos, bytes_)
       ELSE LET at == IF format_size(format_) = 4 THEN sheet_data_pos \div 2
                      ELSE sheet_data_pos
            IN [sheet_data EXCEPT ![at + 1] = BitOr(@, bytes_[1])]

\* One pass of the loops of visit_pixels under the encoding visitor: pass k is
\* skipped or applied to the sheet data as the earlier passes left it
EncodeStep(k, width, format_, bmp, sheet_data) ==
    LET v == LoopPoint(k, width)
        skip == \/ v.bmp_pos >= Len(bmp)
                \/ (v.sheet_data_pos * format_size(format_)) \div 8 >= Len(sheet_data)
    IN IF skip THEN sheet_data
       ELSE EncodeVisitor(format_, bmp, v.bmp_pos, sheet_data, v.sheet_data_pos)

\* The passes lo .. hi-1 in order (split in halves, the first half first)
RECURSIVE EncodeLoop(_, _, _, _, _, _)
EncodeLoop(lo, hi, width, format_, bmp, sheet_data) ==
    IF hi <= lo THEN sheet_data
    ELSE IF hi = lo + 1
    THEN Let(sheet_data, LAMBDA d : EncodeStep(lo, width, format_, bmp, d))
    ELSE Let(EncodeLoop(lo, (lo + hi) \div 2, width, format_, bmp, sheet_data),
             LAMBDA d : EncodeLoop((lo + hi) \div 2, hi, width, format_, bmp, d))

\* _bitmap_to_sheet: the sheet bytes of a bitmap; sheet is self.tglp['sheet']
bitmap_to_sheet(sheet, bmp) ==
    LET width == PowerOfTwoBoundary(sheet.width)
        height == PowerOfTwoBoundary(sheet.height)
        n == (width \div 8) * (height \div 8) * 64
    IN Let(bmp, LAMBDA pixels :
           EncodeLoop(0, n, width, sheet.format, pixels, [i \in 1..sheet.size |-> 0]))

\* The bitmap _sheet_to_bitmap's visitor leaves: bmp[bmp_pos] is the pixel decoded
\* by the last visit of bmp_pos, (0, 0, 0, 0) where there was none
DecodeVisits(format_, sheet_data, visits, len_bmp) ==
    LET Decoded(i) == get_pixel_data(format_, sheet_data, visits[i].sheet_data_pos)
        At(pos) == {i \in 1..Len(visits) : visits[i].bmp_pos = pos}
    IN IF \E i \in 1..Len(visits) : Len(Decoded(i)) # 4
       THEN [raised |-> "struct.error", bmp |-> <<>>]
       ELSE [raised |-> "",
             bmp |-> [q \in 1..len_bmp |->
                        IF At(q - 1) = {} THEN <<0, 0, 0, 0>>
                        ELSE Decoded(CHOOSE i \in At(q - 1) :
                                        \A j \in At(q - 1) : j <= i)]]

\* _sheet_to_bitmap: the bitmap of a sheet's bytes; raised = "struct.error" when
\* a visited pixel's bytes run past the end of sheet_data
sheet_to_bitmap(sheet, sheet_data) ==
    LET width == PowerOfTwoBoundary(sheet.width)
        height == PowerOfTwoBoundary(sheet.height)
    IN Let(sheet_data, LAMBDA d :
         Let(visit_pixels(width, height, sheet.format, width * height, Len(d)),
             LAMBDA visits : DecodeVisits(sheet.format, d, visits, width * height)))

-----------------------------------------------------------------------------
(* ETC1 block decoder: _decompress_etc1                                    *)

ETC_INDIV_RED1_OFFSET == 60

ETC_INDIV_GREEN1_OFFSET == 52

ETC_INDIV_BLUE1_OFFSET == 44

ETC_DIFF_RED1_OFFSET == 59

ETC_DIFF_GREEN1_OFFSET == 51

ETC_DIFF_BLUE_OFFSET == 43

ETC_RED2_OFFSET == 56

ETC_GREEN2_OFFSET == 48

ETC_BLUE2_OFFSET == 40

ETC_TABLE1_OFFSET == 37

ETC_TABLE2_OFFSET == 34

ETC_DIFFERENTIAL_BIT == 33

ETC_ORIENTATION_BIT == 32

ETC_MODIFIERS ==
    <<<<2, 8>>, <<5, 17>>, <<9, 29>>, <<13, 42>>,
      <<18, 60>>, <<24, 80>>, <<33, 106>>, <<47, 183>>>>

\* struct.unpack('%sQ' % order, s)[0]: the 64-bit value of eight bytes, held as
\* its bits (bit j of the value at [j]); the value itself exceeds TLC's integers
UnpackQ(order, s) ==
    [j \in 0..63 |->
        LET byte == IF order = "<" THEN s[(j \div 8) + 1] ELSE s[8 - (j \div 8)]
        IN (byte \div (2 ^ (j % 8))) % 2]

\* alphas = 0xFFffFFffFFffFFff
AllOnesQ == [j \in 0..63 |-> 1]

\* (q >> offset) & (2^n - 1) of a 64-bit value held as its bits
RECURSIVE ShrMask(_, _, _)
ShrMask(q, offset, n) ==
    IF n = 0 THEN 0
    ELSE (IF offset <= 63 THEN q[offset] ELSE 0) + 2 * ShrMask(q, offset + 1, n - 1)

\* _complement: the value of a bits-wide two's complement code word
complement(input_, bits) ==
    IF Shr(input_, bits - 1) = 0 THEN input_ ELSE input_ - Shl(1, bits)

\* (c << 3) | ((c >> 2) & 0x07) on a Python integer c, which may be negative or
\* above 31: c << 3 has its three low bits clear, so the OR adds the second term
Extend5(c) == 8 * c + ((c \div 4) % 8)

\* color1 and color2 of a block (lines 775-808)
EtcColors(pixels) ==
    IF ShrMask(pixels, ETC_DIFFERENTIAL_BIT, 1) = 1
    THEN LET r == ShrMask(pixels, ETC_DIFF_RED1_OFFSET, 5)
             g == ShrMask(pixels, ETC_DIFF_GREEN1_OFFSET, 5)
             b == ShrMask(pixels, ETC_DIFF_BLUE_OFFSET, 5)
             r2 == r + complement(ShrMask(pixels, ETC_RED2_OFFSET, 3), 3)
             g2 == g + complement(ShrMask(pixels, ETC_GREEN2_OFFSET, 3), 3)
             b2 == b + complement(ShrMask(pixels, ETC_BLUE2_OFFSET, 3), 3)
         IN [color1 |-> <<Extend5(r), Extend5(g), Extend5(b)>>,
             color2 |-> <<Extend5(r2), Extend5(g2), Extend5(b2)>>]
    ELSE [color1 |-> <<ShrMask(pixels, ETC_INDIV_RED1_OFFSET, 4) * 17,
                       ShrMask(pixels, ETC_INDIV_GREEN1_OFFSET, 4) * 17,
                       ShrMask(pixels, ETC_INDIV_BLUE1_OFFSET, 4) * 17>>,
          color2 |-> <<ShrMask(pixels, ETC_RED2_OFFSET, 4) * 17,
                       ShrMask(pixels, ETC_GREEN2_OFFSET, 4) * 17,
                       ShrMask(pixels, ETC_BLUE2_OFFSET, 4) * 17>>]

\* line 835 with the second modifier of the row taken where the amount bit is 0
EtcAmountSecond(table, bit) == table[2 - bit]

\* line 835: amount = table[(amounts >> offset) & 0x01]
EtcAmount(table, bit) == table[bit + 1]

\* lines 842-844 with the sum kept to its low eight bits instead of clamped
ClampWrapped(v) == v % 256

\* max(min(v, 0xFF), 0)
Clamp(v) == Max(Min(v, 255), 0)

\* One pixel of a block (lines 813-848): amounts are the low 16 bits of pixels,
\* signs the next 16
EtcPixel(pixels, alphas, colors, pixel_x, pixel_y) ==
    LET offset == pixel_x * 4 + pixel_y
        horizontal == ShrMask(pixels, ETC_ORIENTATION_BIT, 1) = 1
        first == IF horizontal THEN pixel_y < 2 ELSE pixel_x < 2
        table == ETC_MODIFIERS[ShrMask(pixels, IF first THEN ETC_TABLE1_OFFSET
                                                ELSE ETC_TABLE2_OFFSET, 3) + 1]
        color == IF first THEN colors.color1 ELSE colors.color2
        amount == IF ShrMask(pixels, 16 + offset, 1) = 1
                  THEN -EtcAmount(table, ShrMask(pixels, offset, 1))
                  ELSE EtcAmount(table, ShrMask(pixels, offset, 1))
    IN <<Clamp(color[1] + amount), Clamp(color[2] + amount),
         Clamp(color[3] + amount), ShrMask(alphas, offset * 4, 4) * 17>>

\* The 16 pixels of one block of block_size bytes, at [pixel_x * 4 + pixel_y + 1]
\* (lines 754-848)
EtcBlock(order, with_alpha, block) ==
    Let(IF with_alpha THEN UnpackQ(order, SubSeq(block, 1, 8)) ELSE AllOnesQ,
        LAMBDA alphas :
    Let(UnpackQ(order, IF with_alpha THEN SubSeq(block, 9, 16) ELSE block),
        LAMBDA pixels :
    Let(EtcColors(pixels), LAMBDA colors :
        [o \in 1..16 |->
            EtcPixel(pixels, alphas, colors, (o - 1) \div 4, (o - 1) % 4)])))

\* _decompress_etc1: the bitmap of one compressed sheet. The blocks follow each
\* other in the order of the four loops (tile_y, tile_x, block_y, block_x), so
\* the pixel (x, y) comes from block BlockOf(x, y); unpacking a block that the
\* data does not hold whole raises struct.error, whichever block it is.
decompress_etc1(sheet, order, data) ==
    LET width == sheet.width
        height == sheet.height
        with_alpha == sheet.format = "ETC1A4"
        block_size == IF with_alpha THEN 16 ELSE 8
        tile_width == PowerOfTwoBoundary((width + 7) \div 8)
        tile_height == PowerOfTwoBoundary((height + 7) \div 8)
        blocks == tile_width * tile_height * 4
        BlockOf(x, y) ==
            (((y \div 8) * tile_width + (x \div 8)) * 2 + ((y % 8) \div 4)) * 2
                + ((x % 8) \div 4)
    IN IF Len(data) < blocks * block_size
       THEN [raised |-> "struct.error", bmp |-> <<>>]
       ELSE Let([k \in 0..(blocks - 1) |->
                    EtcBlock(order, with_alpha,
                             SubSeq(data, k * block_size + 1, (k + 1) * block_size))],
                LAMBDA decoded :
                  [raised |-> "",
                   bmp |-> [i \in 1..(width * height) |->
                              LET x == (i - 1) % width
                                  y == (i - 1) \div width
                              IN decoded[BlockOf(x, y)][(x % 4) * 4 + (y % 4) + 1]]])

-----------------------------------------------------------------------------
(* Bffnt.save                                                              *)

\* self.filetype.upper().encode('ascii')
MagicOfFiletype(filetype) == IF filetype = "ffnu" THEN MagicFFNU ELSE MagicFFNT

\* magic.decode('ascii').lower()
FiletypeOfMagic(magic) == IF magic = MagicFFNU THEN "ffnu" ELSE "ffnt"

\* The keys of a dict of entries (a function code -> index), sorted
RECURSIVE SortedSeq(_)
SortedSeq(S) ==
    IF S = {} THEN <<>>
    ELSE LET m == CHOOSE x \in S : \A y \in S : x <= y
         IN <<m>> \o SortedSeq(S \ {m})

RECURSIVE Flatten(_)
Flatten(ss) == IF Len(ss) = 0 THEN <<>> ELSE Head(ss) \o Flatten(Tail(ss))

\* lines 496 and 548: padding = position % 4
Padding(position) == position % 4

Zeros(n) == [i \in 1..n |-> 0]

\* lines 342-373: the header and FINF, offsets and counts still 0
SaveHeaderFinf(o) ==
    LET bom == IF o.order = ">" THEN 65534 ELSE IF o.order = "<" THEN 65279 ELSE 0
        fi == o.font_info
        header == MagicOfFiletype(o.filetype) \o PackH(o.order, bom)
                    \o PackH(o.order, FFNT_HEADER_SIZE) \o PackI(o.order, o.version)
                    \o PackI(o.order, 0) \o PackI(o.order, 0)
        finf == FINF_HEADER_MAGIC \o PackI(o.order, FINF_HEADER_SIZE)
                    \o <<fi.fontType, fi.height, fi.width, fi.ascent>>
                    \o PackH(o.order, fi.lineFeed) \o PackH(o.order, fi.alterCharIdx)
                    \o <<fi.defaultWidth.left, fi.defaultWidth.glyphWidth,
                         fi.defaultWidth.charWidth, fi.encoding>>
                    \o PackI(o.order, 0) \o PackI(o.order, 0) \o PackI(o.order, 0)
    IN [file |-> Write(Write(EmptyFile, 0, header), FFNT_HEADER_SIZE, finf),
        position |-> FFNT_HEADER_SIZE + FINF_HEADER_SIZE,
        section_count |-> 1,
        layout |-> <<[kind |-> "FINF", start |-> FFNT_HEADER_SIZE,
                      payload_end |-> FFNT_HEADER_SIZE + FINF_HEADER_SIZE,
                      end |-> FFNT_HEADER_SIZE + FINF_HEADER_SIZE]>>,
        raised |-> "",
        invalid |-> FALSE,
        sheet_size |-> o.tglp.sheet.size]

\* lines 377-399: the FINF reference to TGLP and the TGLP header
SaveTglpHeader(o, ws) ==
    LET sheet == o.tglp.sheet
        position == ws.position
        tglp_data_size == (sheet.width * sheet.height * format_size(sheet.format)) \div 8
        hdr == TGLP_HEADER_MAGIC \o PackI(o.order, 0)
                 \o <<o.tglp.glyph.width, o.tglp.glyph.height, o.tglp.sheetCount,
                      o.tglp.maxCharWidth>>
                 \o PackI(o.order, tglp_data_size)
                 \o PackH(o.order, o.tglp.glyph.baseline)
                 \o PackH(o.order, FormatValue(sheet.format))
                 \o PackH(o.order, sheet.cols) \o PackH(o.order, sheet.rows)
                 \o PackH(o.order, sheet.width) \o PackH(o.order, sheet.height)
                 \o PackI(o.order, TGLP_DATA_OFFSET)
        f1 == Write(ws.file, FFNT_HEADER_SIZE + 20, PackI(o.order, position + 8))
    IN [ws EXCEPT !.file = Write(f1, position, hdr),
                  !.position = TGLP_DATA_OFFSET,
                  !.section_count = @ + 1,
                  !.layout = Append(@, [kind |-> "TGLP", start |-> position,
                                        payload_end |-> position + TGLP_HEADER_SIZE,
                                        end |-> position + TGLP_HEADER_SIZE])]

\* lines 401-462: one sheet image after the other, from TGLP_DATA_OFFSET on
RECURSIVE SaveSheets(_, _, _, _)
SaveSheets(o, pngs, idx, ws) ==
    IF idx >= o.tglp.sheetCount \/ ws.raised # "" \/ ws.invalid THEN ws
    ELSE LET sheet == o.tglp.sheet
             img == pngs[idx + 1]
             tglp_data_size ==
                 (sheet.width * sheet.height * format_size(sheet.format)) \div 8
         IN IF img.width # sheet.width \/ img.height # sheet.height
            THEN [ws EXCEPT !.invalid = TRUE]
            ELSE Let(bitmap_to_sheet([sheet EXCEPT !.size = tglp_data_size], img.pixels),
                   LAMBDA data :
                     IF \E i \in 1..Len(data) : data[i] > 255
                     THEN [ws EXCEPT !.raised = "struct.error",
                                     !.sheet_size = tglp_data_size]
                     ELSE Let([ws EXCEPT !.file = Write(@, ws.position, data),
                                         !.position = @ + Len(data),
                                         !.sheet_size = tglp_data_size],
                              LAMBDA w : SaveSheets(o, pngs, idx + 1, w)))

\* lines 464-469 with the reference stored as the section start itself
SaveTglpSizeNoSkip(o, ws) ==
    LET tglp_start_pos == FFNT_HEADER_SIZE + FINF_HEADER_SIZE
        f1 == Write(ws.file, tglp_start_pos + 4,
                    PackI(o.order, ws.position - tglp_start_pos))
    IN [ws EXCEPT !.file = Write(f1, FFNT_HEADER_SIZE + 24,
                                 PackI(o.order, ws.position)),
                  !.layout = [@ EXCEPT ![2].end = ws.position]]

\* lines 464-469: the TGLP size and the FINF reference to the first CWDH
SaveTglpSize(o, ws) ==
    LET tglp_start_pos == FFNT_HEADER_SIZE + FINF_HEADER_SIZE
        f1 == Write(ws.file, tglp_start_pos + 4,
                    PackI(o.order, ws.position - tglp_start_pos))
    IN [ws EXCEPT !.file = Write(f1, FFNT_HEADER_SIZE + 24,
                                 PackI(o.order, ws.position + 8)),
                  !.layout = [@ EXCEPT ![2].end = ws.position]]


\* struct.pack('=bbb', ...) takes each of the three in -128..127
FitsSByte(v) == v >= -128 /\ v <= 127

\* lines 490-493: how many triples of cwdh are written before cwdh.data[code]
\* raises IndexError or struct.pack raises struct.error (all of them if none does)
RECURSIVE TriplesWritten(_, _)
TriplesWritten(cwdh, code) ==
    IF code > cwdh.end THEN 0
    ELSE IF code >= Len(cwdh.data) THEN 0
    ELSE LET w == cwdh.data[code + 1]
         IN IF FitsSByte(w.left) /\ FitsSByte(w.glyph) /\ FitsSByte(w.char)
            THEN 1 + TriplesWritten(cwdh, code + 1)
            ELSE 0

\* lines 490-493: the bytes of the triples of codes start .. start + n - 1
TripleBytes(cwdh, n) ==
    Flatten([k \in 1..n |->
        LET w == cwdh.data[cwdh.start + k]
        IN <<PackSByte(w.left), PackSByte(w.glyph), PackSByte(w.char)>>])

\* lines 475-503: the CWDH records i, i+1, ... of self.cwdh_sections
RECURSIVE SaveCwdh(_, _, _, _)
SaveCwdh(o, i, prev_cwdh_offset_pos, ws) ==
    IF i > Len(o.cwdh_sections) \/ ws.raised # "" THEN ws
    ELSE LET cwdh == o.cwdh_sections[i]
             position == ws.position
             f1 == IF prev_cwdh_offset_pos > 0
                   THEN Write(ws.file, prev_cwdh_offset_pos, PackI(o.order, position + 8))
                   ELSE ws.file
             hdr == CWDH_HEADER_MAGIC \o PackI(o.order, 0) \o PackH(o.order, cwdh.start)
                      \o PackH(o.order, cwdh.end) \o PackI(o.order, 0)
             f2 == Write(f1, position, hdr)
             want == Max(cwdh.end - cwdh.start + 1, 0)
             n == TriplesWritten(cwdh, cwdh.start)
             f3 == Write(f2, position + CWDH_HEADER_SIZE, TripleBytes(cwdh, n))
             payload_end == position + CWDH_HEADER_SIZE + 3 * n
             padding == Padding(payload_end)
             f4 == Write(f3, payload_end, Zeros(padding))
             done == payload_end + padding
             f5 == Write(f4, position + 4, PackI(o.order, done - position))
         IN IF n < want
            THEN [ws EXCEPT !.file = f3, !.position = payload_end,
                            !.section_count = @ + 1,
                            !.raised = IF cwdh.start + n >= Len(cwdh.data)
                                       THEN "IndexError" ELSE "struct.error"]
            ELSE Let([ws EXCEPT !.file = f5, !.position = done,
                                !.section_count = @ + 1,
                                !.layout = Append(@, [kind |-> "CWDH", start |-> position,
                                                      payload_end |-> payload_end,
                                                      end |-> done])],
                     LAMBDA w : SaveCwdh(o, i + 1, position + 12, w))

\* lines 529-545: the payload of one CMAP record
CmapPayload(order, cmap) ==
    LET count == PackH(order, Cardinality(DOMAIN cmap.entries))
        keys == SortedSeq(DOMAIN cmap.entries)
    IN count \o
       (CASE cmap.type = MAPPING_DIRECT -> PackH(order, cmap.indexOffset)
          [] cmap.type = MAPPING_TABLE ->
                Flatten([k \in 1..Len(cmap.indexTable) |-> PackH(order, cmap.indexTable[k])])
          [] cmap.type = MAPPING_SCAN ->
                Flatten([k \in 1..Len(keys) |->
                    PackH(order, keys[k]) \o PackH(order, cmap.entries[keys[k]])])
          [] OTHER -> <<>>)

\* lines 513-555: the CMAP records i, i+1, ... of self.cmap_sections
RECURSIVE SaveCmap(_, _, _, _)
SaveCmap(o, i, prev_cmap_offset_pos, ws) ==
    IF i > Len(o.cmap_sections) \/ ws.raised # "" THEN ws
    ELSE LET cmap == o.cmap_sections[i]
             position == ws.position
             f1 == IF prev_cmap_offset_pos > 0
                   THEN Write(ws.file, prev_cmap_offset_pos, PackI(o.order, position + 8))
                   ELSE ws.file
             hdr == CMAP_HEADER_MAGIC \o PackI(o.order, 0) \o PackH(o.order, cmap.start)
                      \o PackH(o.order, cmap.end) \o PackH(o.order, cmap.type)
                      \o PackH(o.order, 0) \o PackI(o.order, 0)
             f2 == Write(f1, position, hdr)
             payload == CmapPayload(o.order, cmap)
             f3 == Write(f2, position + CMAP_HEADER_SIZE, payload)
             payload_end == position + CMAP_HEADER_SIZE + Len(payload)
             padding == Padding(payload_end)
             f4 == Write(f3, payload_end, Zeros(padding))
             done == payload_end + padding
             f5 == Write(f4, position + 4, PackI(o.order, done - position))
         IN IF ~cmap.has_entries
            THEN [ws EXCEPT !.file = f2, !.position = position + CMAP_HEADER_SIZE,
                            !.section_count = @ + 1, !.raised = "KeyError"]
            ELSE Let([ws EXCEPT !.file = f5, !.position = done,
                                !.section_count = @ + 1,
                                !.layout = Append(@, [kind |-> "CMAP", start |-> position,
                                                      payload_end |-> payload_end,
                                                      end |-> done])],
                     LAMBDA w : SaveCmap(o, i + 1, position + 16, w))

\* lines 557-562 with the sections counted from the TGLP on (the FINF left out)
SaveCountsFromTglp(o, ws) ==
    [ws EXCEPT !.file = Write(Write(@, 12, PackI(o.order, ws.position)),
                              16, PackI(o.order, ws.section_count - 1))]

\* lines 557-562: the file size and the section count of the header, filled in
\* last (file_size_pos = 0x0C, section_count_pos = 0x10)
SaveCounts(o, ws) ==
    [ws EXCEPT !.file = Write(Write(@, 12, PackI(o.order, ws.position)),
                              16, PackI(o.order, ws.section_count))]

\* Bffnt.save: what it leaves in the file, and where it put each section
\* (layout), the position it ended at, and how it ended: raised # "" for an
\* exception, invalid for the return at line 412.
save(o, pngs) ==
    Let(SaveHeaderFinf(o), LAMBDA w0 :
    Let(SaveTglpHeader(o, w0), LAMBDA wt :
    Let(SaveSheets(o, pngs, 0, wt), LAMBDA w1 :
        IF w1.raised # "" \/ w1.invalid THEN w1
        ELSE
    Let(SaveTglpSize(o, w1), LAMBDA ws :
    Let(SaveCwdh(o, 1, 0, ws), LAMBDA w2 :
        IF w2.raised # "" THEN w2
        ELSE
    Let([w2 EXCEPT !.file = Write(@, FFNT_HEADER_SIZE + 28,
                                  PackI(o.order, w2.position + 8))], LAMBDA w3 :
    Let(SaveCmap(o, 1, 0, w3), LAMBDA w4 :
        IF w4.raised # "" THEN w4
        ELSE SaveCounts(o, w4))))))))

-----------------------------------------------------------------------------
(* Bffnt.read and its parsers                                              *)

NoFontInfo ==
    [height |-> 0, width |-> 0, ascent |-> 0, lineFeed |-> 0, alterCharIdx |-> 0,
     defaultWidth |-> [left |-> 0, glyphWidth |-> 0, charWidth |-> 0],
     fontType |-> 0, encoding |-> 0]

NoTglp ==
    [size |-> 0, glyph |-> [width |-> 0, height |-> 0, baseline |-> 0],
     sheetCount |-> 0,
     sheet |-> [size |-> 0, cols |-> 0, rows |-> 0, width |-> 0, height |-> 0,
                format |-> "RGBA8"],
     sheetOffset |-> 0]

\* Bffnt(): the attributes of a new object are the class attributes (lines
\* 130-141); order is None, and what read() alone assigns is unset (-1, "").
NewBffnt ==
    [order |-> "None", invalid |-> FALSE, file_size |-> 0, filetype |-> "",
     version |-> -1, sections |-> -1,
     font_info |-> NoFontInfo, has_font_info |-> FALSE,
     tglp_offset |-> -1, cwdh_offset |-> -1, cmap_offset |-> -1,
     tglp |-> NoTglp, has_tglp |-> FALSE,
     sheets |-> <<>>, raised |-> "",
     next |-> 0]      \* the local cwdh / cmap of read(): the offset to follow next

\* lines 567-571 with the two markers exchanged
ByteOrderOfSwapped(bom, order) ==
    IF bom = 65534 THEN ">" ELSE IF bom = 65279 THEN "<" ELSE order

\* lines 567-571: bom is the marker read big-endian; any other value leaves
\* self.order as it was
ByteOrderOf(bom, order) ==
    IF bom = 65534 THEN "<" ELSE IF bom = 65279 THEN ">" ELSE order

parse_header(self, data) ==
    LET order == ByteOrderOf(UnpackH(">", SubSeq(data, 5, 6)), self.order)
        s1 == [self EXCEPT !.order = order]
        magic == SubSeq(data, 1, 4)
        header_size == UnpackH(order, SubSeq(data, 7, 8))
        version == UnpackI(order, SubSeq(data, 9, 12))
        file_size == UnpackI(order, SubSeq(data, 13, 16))
        sections == UnpackI(order, SubSeq(data, 17, 20))
        s2 == [s1 EXCEPT !.version = version]
        s3 == [s2 EXCEPT !.filetype = FiletypeOfMagic(magic)]
    IN IF Len(data) < 6 THEN [self EXCEPT !.raised = "struct.error"]
       ELSE IF order = "None" THEN [s1 EXCEPT !.invalid = TRUE]
       ELSE IF Len(data) # FFNT_HEADER_SIZE THEN [s1 EXCEPT !.raised = "struct.error"]
       ELSE IF magic \notin FFNT_HEADER_MAGIC THEN [s2 EXCEPT !.invalid = TRUE]
       ELSE IF version \notin VERSIONS THEN [s3 EXCEPT !.invalid = TRUE]
       ELSE IF header_size # FFNT_HEADER_SIZE THEN [s3 EXCEPT !.invalid = TRUE]
       ELSE IF file_size # self.file_size THEN [s3 EXCEPT !.invalid = TRUE]
       ELSE [s3 EXCEPT !.sections = sections]

\* _parse_finf: self after the call
parse_finf(self, data) ==
    LET o == self.order
        magic == SubSeq(data, 1, 4)
        section_size == UnpackI(o, SubSeq(data, 5, 8))
    IN IF Len(data) # FINF_HEADER_SIZE THEN [self EXCEPT !.raised = "struct.error"]
       ELSE IF magic # FINF_HEADER_MAGIC THEN [self EXCEPT !.invalid = TRUE]
       ELSE IF section_size # FINF_HEADER_SIZE THEN [self EXCEPT !.invalid = TRUE]
       ELSE [self EXCEPT
                !.font_info =
                    [height |-> data[10], width |-> data[11], ascent |-> data[12],
                     lineFeed |-> UnpackH(o, SubSeq(data, 13, 14)),
                     alterCharIdx |-> UnpackH(o, SubSeq(data, 15, 16)),
                     defaultWidth |-> [left |-> data[17], glyphWidth |-> data[18],
                                       charWidth |-> data[19]],
                     fontType |-> data[9], encoding |-> data[20]],
                !.has_font_info = TRUE,
                !.tglp_offset = UnpackI(o, SubSeq(data, 21, 24)),
                !.cwdh_offset = UnpackI(o, SubSeq(data, 25, 28)),
                !.cmap_offset = UnpackI(o, SubSeq(data, 29, 32))]

\* Format(value): the member with that value, "ValueError" if there is none
FormatOfValue(v) ==
    IF \E f \in Formats : FormatValue(f) = v
    THEN CHOOSE f \in Formats : FormatValue(f) = v
    ELSE "ValueError"

\* _parse_tglp_header: self after the call
parse_tglp_header(self, data) ==
    LET o == self.order
        magic == SubSeq(data, 1, 4)
        sheet_pixel_format == FormatOfValue(UnpackH(o, SubSeq(data, 19, 20)))
    IN IF Len(data) # TGLP_HEADER_SIZE THEN [self EXCEPT !.raised = "struct.error"]
       ELSE IF sheet_pixel_format = "ValueError" THEN [self EXCEPT !.raised = "ValueError"]
       ELSE IF magic # TGLP_HEADER_MAGIC THEN [self EXCEPT !.invalid = TRUE]
       ELSE [self EXCEPT
                !.tglp =
                    [size |-> UnpackI(o, SubSeq(data, 5, 8)),
                     glyph |-> [width |-> data[9], height |-> data[10],
                                baseline |-> UnpackH(o, SubSeq(data, 17, 18))],
                     sheetCount |-> data[11],
                     sheet |-> [size |-> UnpackI(o, SubSeq(data, 13, 16)),
                                cols |-> UnpackH(o, SubSeq(data, 21, 22)),
                                rows |-> UnpackH(o, SubSeq(data, 23, 24)),
                                width |-> UnpackH(o, SubSeq(data, 25, 26)),
                                height |-> UnpackH(o, SubSeq(data, 27, 28)),
                                format |-> sheet_pixel_format],
                     sheetOffset |-> UnpackI(o, SubSeq(data, 29, 32))],
                !.has_tglp = TRUE]


\* _parse_cwdh_header returning 0 for every record, as if each were the last
parse_cwdh_header_last(self, sections, data) ==
    LET o == self.order
        magic == SubSeq(data, 1, 4)
    IN IF Len(data) # CWDH_HEADER_SIZE
       THEN [self |-> [self EXCEPT !.raised = "struct.error"],
             sections |-> sections, ret |-> -1]
       ELSE IF magic # CWDH_HEADER_MAGIC
       THEN [self |-> [self EXCEPT !.invalid = TRUE], sections |-> sections, ret |-> -1]
       ELSE [self |-> self,
             sections |-> Append(sections,
                 [size |-> UnpackI(o, SubSeq(data, 5, 8)),
                  start |-> UnpackH(o, SubSeq(data, 9, 10)),
                  end |-> UnpackH(o, SubSeq(data, 11, 12)),
                  data |-> <<>>]),
             ret |-> 0]

\* _parse_cwdh_header: self, the section list self.cwdh_sections names, and the
\* returned next offset (-1 for None)
parse_cwdh_header(self, sections, data) ==
    LET o == self.order
        magic == SubSeq(data, 1, 4)
    IN IF Len(data) # CWDH_HEADER_SIZE
       THEN [self |-> [self EXCEPT !.raised = "struct.error"],
             sections |-> sections, ret |-> -1]
       ELSE IF magic # CWDH_HEADER_MAGIC
       THEN [self |-> [self EXCEPT !.invalid = TRUE], sections |-> sections, ret |-> -1]
       ELSE [self |-> self,
             sections |-> Append(sections,
                 [size |-> UnpackI(o, SubSeq(data, 5, 8)),
                  start |-> UnpackH(o, SubSeq(data, 9, 10)),
                  end |-> UnpackH(o, SubSeq(data, 11, 12)),
                  data |-> <<>>]),
             ret |-> UnpackI(o, SubSeq(data, 13, 16))]

\* _parse_cwdh_data: info.data; raised = "struct.error" when data runs out
parse_cwdh_data(info, data) ==
    LET count == Max(info.end - info.start + 1, 0)
    IN IF Len(data) < 3 * count
       THEN [raised |-> "struct.error", data |-> <<>>]
       ELSE [raised |-> "",
             data |-> [k \in 1..count |->
                        [left |-> UnpackSByte(data[3 * k - 2]),
                         glyph |-> data[3 * k - 1],
                         char |-> data[3 * k]]]]

\* _parse_cmap_header: a magic mismatch is printed and nothing else
parse_cmap_header(self, sections, data) ==
    LET o == self.order
    IN IF Len(data) # CMAP_HEADER_SIZE
       THEN [self |-> [self EXCEPT !.raised = "struct.error"],
             sections |-> sections, ret |-> -1]
       ELSE [self |-> self,
             sections |-> Append(sections,
                 [size |-> UnpackI(o, SubSeq(data, 5, 8)),
                  start |-> UnpackH(o, SubSeq(data, 9, 10)),
                  end |-> UnpackH(o, SubSeq(data, 11, 12)),
                  type |-> UnpackH(o, SubSeq(data, 13, 14)),
                  has_entries |-> FALSE, entries |-> <<>>,
                  indexOffset |-> -1, indexTable |-> <<>>]),
             ret |-> UnpackI(o, SubSeq(data, 17, 20))]

\* The dict built by lines 1210-1214 from the first n (code, index) pairs of
\* data, a later pair replacing an earlier one of the same code
RECURSIVE ScanEntries(_, _, _)
ScanEntries(order, data, n) ==
    IF n = 0 THEN <<>>
    ELSE LET at == 2 + 4 * (n - 1)
             code == UnpackH(order, SubSeq(data, at + 1, at + 2))
             index == UnpackH(order, SubSeq(data, at + 3, at + 4))
         IN (code :> index) @@ ScanEntries(order, data, n - 1)

\* _parse_cmap_data: info after the call; raised = "struct.error" when data runs out
parse_cmap_data(order, info, data) ==
    LET count == Max(info.end - info.start + 1, 0)
        scan_count == UnpackH(order, SubSeq(data, 1, 2))
        Short == [raised |-> "struct.error", info |-> info]
    IN CASE info.type = MAPPING_DIRECT ->
              IF Len(data) < 2 THEN Short
              ELSE [raised |-> "",
                    info |-> [info EXCEPT
                                !.indexOffset = UnpackH(order, SubSeq(data, 1, 2))]]
         [] info.type = MAPPING_TABLE ->
              IF Len(data) < 2 * count THEN Short
              ELSE [raised |-> "",
                    info |-> [info EXCEPT !.indexTable =
                        [k \in 1..count |-> UnpackH(order, SubSeq(data, 2 * k - 1, 2 * k))]]]
         [] info.type = MAPPING_SCAN ->
              IF Len(data) < 2 THEN Short
              ELSE IF Len(data) < 2 + 4 * scan_count THEN Short
              ELSE [raised |-> "",
                    info |-> [info EXCEPT !.has_entries = TRUE,
                                !.entries = ScanEntries(order, data, scan_count)]]
         [] OTHER -> [raised |-> "", info |-> info]

\* _parse_tglp_data: self.tglp['sheets']; raised = "struct.error" when a visited
\* pixel or a compressed block of a sheet is cut short by the end of the file
parse_tglp_data(tglp, order, f) ==
    Let([i \in 1..tglp.sheetCount |->
            LET sheet == FileSlice(f, tglp.sheetOffset + (i - 1) * tglp.sheet.size,
                                      tglp.sheetOffset + i * tglp.sheet.size)
            IN IF tglp.sheet.format \in {"ETC1", "ETC1A4"}
               THEN decompress_etc1(tglp.sheet, order, sheet)
               ELSE sheet_to_bitmap(tglp.sheet, sheet)],
        LAMBDA got :
          IF \E i \in 1..tglp.sheetCount : got[i].raised # ""
          THEN [raised |-> "struct.error", sheets |-> <<>>]
          ELSE [raised |-> "",
                sheets |-> [i \in 1..tglp.sheetCount |->
                              [width |-> tglp.sheet.width, height |-> tglp.sheet.height,
                               data |-> got[i].bmp]]])

-----------------------------------------------------------------------------
(* Bffnt.load, and the width table extract() writes to the manifest        *)

\* Bffnt(load_order=order): lines 130-146, before load() or a caller fills it
\* (version, filetype and tglp['maxCharWidth'] are unset: -1, "")
Created(load_order) ==
    [load_order |-> load_order, order |-> "None", version |-> -1, filetype |-> "",
     invalid |-> FALSE, font_info |-> NoFontInfo,
     tglp |-> [glyph |-> [width |-> 0, height |-> 0, baseline |-> 0],
               sheetCount |-> 0,
               sheet |-> [size |-> 0, cols |-> 0, rows |-> 0, width |-> 0, height |-> 0,
                          format |-> "RGBA8"],
               maxCharWidth |-> -1],
     cwdh_sections |-> <<>>, cmap_sections |-> <<>>]

\* lines 229-242: the one width range load() builds from json_data['glyphWidths']
\* (a function glyph index -> triple; the keys are sorted as integers): it
\* starts at 0, ends at the last key and holds one triple per key
load_widths(widths) ==
    LET glyph_indicies == SortedSeq(DOMAIN widths)
    IN [start |-> 0,
        end |-> glyph_indicies[Len(glyph_indicies)],
        size |-> 0,
        data |-> [k \in 1..Len(glyph_indicies) |-> widths[glyph_indicies[k]]]]

\* lines 196-264: the object load() leaves, and the exception it ends with
\* (glyph_indicies[-1] and glyph_ords[0] of an empty manifest table)
load(self, json_data) ==
    LET tex_info == json_data.textureInfo
        s1 == [self EXCEPT !.order = self.load_order,
                           !.version = json_data.version,
                           !.filetype = json_data.fileType,
                           !.font_info = json_data.fontInfo]
        tglp == [glyph |-> [width |-> tex_info.glyph.width,
                            height |-> tex_info.glyph.height,
                            baseline |-> tex_info.glyph.baseline],
                 sheetCount |-> tex_info.sheetCount,
                 sheet |-> [size |-> 0,
                            cols |-> tex_info.sheetInfo.cols,
                            rows |-> tex_info.sheetInfo.rows,
                            width |-> tex_info.sheetInfo.width,
                            height |-> tex_info.sheetInfo.height,
                            format |-> tex_info.sheetInfo.colorFormat],
                 maxCharWidth |-> -1]
        widths == json_data.glyphWidths
        cwdh == load_widths(widths)
        chars == {0} \cup {widths[i].char : i \in DOMAIN widths}
        widest == CHOOSE c \in chars : \A d \in chars : d <= c
        glyph_map == json_data.glyphMap
        glyph_ords == SortedSeq(DOMAIN glyph_map)
        cmap == [start |-> glyph_ords[1], end |-> glyph_ords[Len(glyph_ords)],
                 type |-> MAPPING_SCAN, size |-> 0, has_entries |-> TRUE,
                 entries |-> glyph_map, indexOffset |-> -1, indexTable |-> <<>>]
    IN IF tex_info.sheetInfo.colorFormat \notin Formats
       THEN [self |-> [s1 EXCEPT !.invalid = TRUE], raised |-> ""]
       ELSE IF DOMAIN widths = {}
       THEN [self |-> [s1 EXCEPT !.tglp = tglp], raised |-> "IndexError"]
       ELSE IF DOMAIN glyph_map = {}
       THEN [self |-> [s1 EXCEPT !.tglp = [tglp EXCEPT !.maxCharWidth = widest],
                                 !.cwdh_sections = <<cwdh>>],
             raised |-> "IndexError"]
       ELSE [self |-> [s1 EXCEPT !.tglp = [tglp EXCEPT !.maxCharWidth = widest],
                                 !.cwdh_sections = <<cwdh>>,
                                 !.cmap_sections = <<cmap>>],
             raised |-> ""]

-----------------------------------------------------------------------------
(* Bounds and inputs                                                       *)

\* Objects that read the file one after the other
MaxReads == 2

\* Records of one chain a single read() is followed through (a chain that
\* loops is followed without end; the model stops following it here)
MaxChain == 4

\* Pixel indices tried by the codec
MaxIndex == 3

FontInfoIn ==
    [height |-> 16, width |-> 12, ascent |-> 13, lineFeed |-> 18, alterCharIdx |-> 63,
     defaultWidth |-> [left |-> 1, glyphWidth |-> 8, charWidth |-> 9],
     fontType |-> 1, encoding |-> 2]

TglpIn(format_) ==
    [glyph |-> [width |-> 7, height |-> 6, baseline |-> 5],
     sheetCount |-> 1,
     sheet |-> [size |-> 0, cols |-> 1, rows |-> 1, width |-> 8, height |-> 8,
                format |-> format_],
     maxCharWidth |-> 9]

Triple(l, g, c) == [left |-> l, glyph |-> g, char |-> c]

Range(a, b, d) == [start |-> a, end |-> b, size |-> 0, data |-> d]

\* self.cwdh_sections as load() builds it (one range from 0, lines 229-247), as a
\* caller assembles it from two ranges of codes from 0, and as a read() leaves a
\* second range (codes 1..2 with data indexed from the range's start)
CwdhInputs ==
    {<<Range(0, 0, <<Triple(0, 8, 8)>>)>>,
     <<Range(0, 1, <<Triple(-1, 7, 9), Triple(2, 5, 6)>>)>>,
     <<Range(0, 0, <<Triple(0, 8, 8)>>), Range(0, 1, <<Triple(-1, 7, 9), Triple(2, 5, 6)>>)>>,
     <<Range(0, 0, <<Triple(0, 8, 8)>>), Range(1, 2, <<Triple(-1, 7, 9), Triple(2, 5, 6)>>)>>}

Scan(a, b, e) ==
    [start |-> a, end |-> b, type |-> MAPPING_SCAN, size |-> 0,
     has_entries |-> TRUE, entries |-> e, indexOffset |-> -1, indexTable |-> <<>>]

Direct(a, b, off, has) ==
    [start |-> a, end |-> b, type |-> MAPPING_DIRECT, size |-> 0,
     has_entries |-> has, entries |-> <<>>, indexOffset |-> off, indexTable |-> <<>>]

Table(a, b, t) ==
    [start |-> a, end |-> b, type |-> MAPPING_TABLE, size |-> 0,
     has_entries |-> TRUE, entries |-> <<>>, indexOffset |-> -1, indexTable |-> t]

\* self.cmap_sections as load() builds it (one Scan range), as a caller may
\* (Direct and Table ranges with an empty 'entries'), and as a read() leaves a
\* Direct range (no 'entries' key)
CmapInputs ==
    {<<Scan(65, 65, (65 :> 0))>>,
     <<Scan(65, 66, (65 :> 0) @@ (66 :> 1)), Scan(97, 97, (97 :> 2))>>,
     <<Direct(65, 66, 3, TRUE), Scan(97, 97, (97 :> 2))>>,
     <<Table(65, 66, <<0, 65535>>)>>,
     <<Direct(65, 66, 3, FALSE)>>}

\* 8x8 sheet images, row-major RGBA8
RampImage ==
    [width |-> 8, height |-> 8,
     pixels |-> [i \in 1..64 |-> <<i, 64 + i, 128 + i, 255 - i>>]]

ZeroImage ==
    [width |-> 8, height |-> 8, pixels |-> [i \in 1..64 |-> <<0, 0, 0, 0>>]]

AlphaImage ==
    [width |-> 8, height |-> 8, pixels |-> [i \in 1..64 |-> <<255, 255, 255, 3 * i>>]]

\* A width x height sheet image of 255 or fewer pixels, each pixel's alpha
\* its row-major number
GridImage(width, height) ==
    [width |-> width, height |-> height,
     pixels |-> [i \in 1..(width * height) |-> <<255, 255, 255, i>>]]

\* A sheet image twice as wide as the sheet the object declares (8x8)
WideImage ==
    [width |-> 16, height |-> 8, pixels |-> [i \in 1..128 |-> <<0, 0, 0, 255>>]]

\* The object save() is called on
ObjIn(order, cwdh, cmap, format_) ==
    [load_order |-> order, order |-> order, version |-> 67108864, filetype |-> "ffnt", invalid |-> FALSE,
     font_info |-> FontInfoIn, tglp |-> TglpIn(format_),
     cwdh_sections |-> cwdh, cmap_sections |-> cmap]

MinimalCwdh == <<Range(0, 0, <<Triple(0, 8, 8)>>)>>

\* json_data['glyphWidths'] of a manifest: one glyph, the run 0..2, runs with
\* an index missing ({0, 2}, {1, 2}, {0, 2, 3}), a glyph width above 127 as
\* extract() writes it from a record that holds the byte 200, and no glyph
WidthTables ==
    {(0 :> Triple(0, 8, 8)),
     (0 :> Triple(-1, 7, 9)) @@ (1 :> Triple(2, 5, 6)) @@ (2 :> Triple(1, 4, 5)),
     (0 :> Triple(-1, 7, 9)) @@ (2 :> Triple(1, 4, 5)),
     (1 :> Triple(2, 5, 6)) @@ (2 :> Triple(1, 4, 5)),
     (0 :> Triple(-1, 7, 9)) @@ (2 :> Triple(1, 4, 5)) @@ (3 :> Triple(3, 3, 7)),
     (0 :> Triple(0, 200, 8)),
     <<>>}

\* The manifest file: json.load(open(json_filename)) at line 197
ManifestIn(widths, glyph_map, colorFormat) ==
    [version |-> 67108864, fileType |-> "ffnt", fontInfo |-> FontInfoIn,
     textureInfo |-> [glyph |-> [width |-> 7, height |-> 6, baseline |-> 5],
                      sheetCount |-> 1,
                      sheetInfo |-> [cols |-> 1, rows |-> 1, width |-> 8, height |-> 8,
                                     colorFormat |-> colorFormat]],
     glyphWidths |-> widths, glyphMap |-> glyph_map]

\* No manifest is opened: the object was filled by the caller
NoManifest ==
    [version |-> -1, fileType |-> "", fontInfo |-> NoFontInfo,
     textureInfo |-> [glyph |-> [width |-> 0, height |-> 0, baseline |-> 0],
                      sheetCount |-> 0,
                      sheetInfo |-> [cols |-> 0, rows |-> 0, width |-> 0, height |-> 0,
                                     colorFormat |-> ""]],
     glyphWidths |-> <<>>, glyphMap |-> <<>>]

MinimalCmap == <<Scan(65, 65, (65 :> 0))>>

NoSave == [raised |-> "", invalid |-> FALSE, layout |-> <<>>, position |-> 0,
           section_count |-> 0]

NoPx == [fmt |-> "RGBA8", p |-> <<0, 0, 0, 0>>, index |-> 0, data |-> <<>>,
         out |-> <<0, 0, 0, 0>>, stage |-> "off"]

NoTv == [width |-> 0, height |-> 0, fmt |-> "RGBA8", len_bmp |-> 0, len_data |-> 0,
         visits |-> <<>>, stage |-> "off"]

NoEtc == [fmt |-> "ETC1", order |-> "<", width |-> 0, height |-> 0, data |-> <<>>,
          bmp |-> <<>>, stage |-> "off"]

\* The colour bytes of a block (bits 63..56, 55..48, 47..40): as two 4-bit
\* colours, or as a 5-bit colour and a 3-bit difference that stays in 0..31
\* (252: 31 - 4, 132: 16 - 4, 255: 31 - 1), falls below 0 (7: 0 - 1) or rises
\* above 31 (251: 31 + 3)
EtcColourBytes == {0, 7, 132, 251, 252, 255}

\* The byte of bits 39..32: table 1, table 2, differential, orientation
EtcFlagBytes == {0, 3, 45, 254}

\* The sign bits (31..16) and amount bits (15..0) of a block, as four bytes
EtcSelectorBytes ==
    {<<0, 0, 0, 0>>, <<255, 255, 255, 255>>, <<0, 0, 255, 255>>, <<165, 195, 60, 90>>}

\* The alpha plane that precedes a block in ETC1A4: pixel offsets 0..15 hold
\* the nibbles 0..15 (in the order '<')
EtcAlphaBytes == <<16, 50, 84, 118, 152, 186, 220, 254>>

Reversed(s) == [i \in 1..Len(s) |-> s[Len(s) + 1 - i]]

\* The bytes of the sheet of one 8x8 tile: four blocks, each the eight bytes
\* of its 64-bit value in the file's byte order (an alpha plane first in
\* ETC1A4); the second block is all zero, the third has the first one's bytes
\* in the opposite order
EtcSheetData(order, format_, block) ==
    LET Stored(b) == (IF format_ = "ETC1A4"
                      THEN (IF order = "<" THEN EtcAlphaBytes ELSE Reversed(EtcAlphaBytes))
                      ELSE <<>>)
                     \o (IF order = ">" THEN b ELSE Reversed(b))
    IN Stored(block) \o Stored(Zeros(8)) \o Stored(Reversed(block)) \o Stored(block)

-----------------------------------------------------------------------------
(* The container specification                                             *)

Init ==
    /\ px = NoPx
    /\ tv = NoTv
    /\ etc = NoEtc
    /\ \/ /\ \/ /\ \E order \in {"<", ">"}, cwdh \in CwdhInputs, cmap \in CmapInputs :
                      obj = ObjIn(order, cwdh, cmap, "RGBA8")
                /\ png = <<RampImage>>
             \/ /\ obj = ObjIn("<", MinimalCwdh, MinimalCmap, "RGBA8")
                /\ png = <<ZeroImage>>
             \/ /\ obj = ObjIn("<", MinimalCwdh, MinimalCmap, "A8")
                /\ png = <<AlphaImage>>
             \/ /\ \E order \in {"<", ">"} :
                      obj = ObjIn(order, MinimalCwdh, MinimalCmap, "RGBA8")
                /\ png = <<WideImage>>
             \/ /\ \E format_ \in {"RGB8", "RGB565"} :
                      obj = ObjIn("<", MinimalCwdh, MinimalCmap, format_)
                /\ png = <<RampImage>>
             \/ \E size \in {<<24, 8>>, <<8, 24>>} :
                   /\ obj = [ObjIn("<", MinimalCwdh, MinimalCmap, "A8") EXCEPT
                               !.tglp.sheet.width = size[1], !.tglp.sheet.height = size[2]]
                   /\ png = <<GridImage(size[1], size[2])>>
          /\ manifest = NoManifest
          /\ pc = "loaded"
       \/ /\ \E order \in {"<", ">"} : obj = Created(order)
          /\ \/ \E widths \in WidthTables :
                   manifest = ManifestIn(widths, (65 :> 0), "RGBA8")
             \/ manifest = ManifestIn((0 :> Triple(0, 8, 8)), <<>>, "RGBA8")
             \/ manifest = ManifestIn((0 :> Triple(0, 8, 8)), (65 :> 0), "RGBA16")
          /\ png = <<RampImage>>
          /\ pc = "created"
    /\ disk = EmptyFile
    /\ wr = NoSave
    /\ cls = [cwdh_sections |-> <<>>, cmap_sections |-> <<>>]
    /\ rd = NewBffnt
    /\ hist = <<>>
    /\ edited = FALSE
    /\ nreads = 0

\* bffnt.load(json_file) and the exit(1) of main for an invalid object:
\* lines 1311-1314
Load ==
    /\ pc = "created"
    /\ \E r \in {load(obj, manifest)} :
          /\ obj' = r.self
          /\ pc' = IF r.raised # "" THEN "load_failed"
                   ELSE IF r.self.invalid THEN "exit" ELSE "loaded"
    /\ UNCHANGED <<px, tv, etc, png, disk, wr, cls, rd, hist, edited, nreads, manifest>>

\* bffnt.save(file): lines 337-564
Save ==
    /\ pc = "loaded"
    /\ \E r \in {save(obj, png)} :
          /\ disk' = r.file
          /\ wr' = [raised |-> r.raised, invalid |-> r.invalid, layout |-> r.layout,
                    position |-> r.position, section_count |-> r.section_count]
          /\ obj' = [obj EXCEPT !.invalid = r.invalid, !.tglp.sheet.size = r.sheet_size]
          /\ pc' = IF r.raised # "" \/ r.invalid THEN "save_failed" ELSE "saved"
    /\ UNCHANGED <<px, tv, etc, png, cls, rd, hist, edited, nreads, manifest>>

\* The fields of a written file that a file from elsewhere may hold differently:
\* each a position and the bytes found there. o.order is the order the fields
\* were written in.
Faults(o, w, f) ==
    LET I(v) == PackI(o.order, v)
        recs(kind) == {i \in 1..Len(w.layout) : w.layout[i].kind = kind}
        first(kind) == w.layout[CHOOSE i \in recs(kind) : \A j \in recs(kind) : i <= j]
        next_at(kind) == IF kind = "CWDH" THEN 12 ELSE 16
        chain(kind) ==
            UNION {
                {[pos |-> w.layout[i].start, bytes |-> <<88>>],
                 [pos |-> w.layout[i].start + 4,
                  bytes |-> I(w.layout[i].end - w.layout[i].start + 4)],
                 [pos |-> w.layout[i].start + next_at(kind),
                  bytes |-> I(w.layout[i].start + 8)],
                 [pos |-> w.layout[i].start + next_at(kind),
                  bytes |-> I(first(kind).start + 8)]} : i \in recs(kind)}
        \* a map method that is none of MAPPING_DIRECT, MAPPING_TABLE, MAPPING_SCAN
        method == {[pos |-> w.layout[i].start + 12, bytes |-> PackH(o.order, 3)] :
                     i \in recs("CMAP")}
        \* width bytes no save() of this model wrote: a left bearing of -1 and
        \* glyph and char widths above 127, in the first triple of a record
        width == UNION {
                    {[pos |-> w.layout[i].start + CWDH_HEADER_SIZE, bytes |-> <<255>>],
                     [pos |-> w.layout[i].start + CWDH_HEADER_SIZE + 1, bytes |-> <<200>>],
                     [pos |-> w.layout[i].start + CWDH_HEADER_SIZE + 2, bytes |-> <<128>>]} :
                    i \in recs("CWDH")}
    IN {[pos |-> 0, bytes |-> <<88>>],
        [pos |-> 4, bytes |-> <<0, 0>>],
        [pos |-> 4, bytes |-> <<254, 255>>],
        [pos |-> 6, bytes |-> PackH(o.order, 16)],
        [pos |-> 8, bytes |-> I(83886080)],
        [pos |-> 12, bytes |-> I(f.len + 1)],
        [pos |-> 16, bytes |-> I(w.section_count + 1)],
        [pos |-> FFNT_HEADER_SIZE, bytes |-> <<88>>],
        [pos |-> FFNT_HEADER_SIZE + 4, bytes |-> I(28)],
        [pos |-> FFNT_HEADER_SIZE + 24, bytes |-> I(0)],
        [pos |-> FFNT_HEADER_SIZE + 28, bytes |-> I(0)],
        [pos |-> FFNT_HEADER_SIZE + FINF_HEADER_SIZE, bytes |-> <<88>>],
        [pos |-> FFNT_HEADER_SIZE + FINF_HEADER_SIZE + 4, bytes |-> I(36)]}
       \cup chain("CWDH") \cup chain("CMAP") \cup method \cup width

\* The file that is read is not the one save() wrote: one of its fields differs
\* (open(filename, 'rb').read() at line 149 takes whatever the file holds)
Corrupt ==
    /\ pc = "saved"
    /\ ~edited
    /\ \E fault \in Faults(obj, wr, disk) :
          disk' = [Write(disk, fault.pos, fault.bytes) EXCEPT !.len = disk.len]
    /\ edited' = TRUE
    /\ UNCHANGED <<px, tv, etc, obj, png, wr, cls, rd, pc, hist, nreads, manifest>>

\* What read() found at a section it parsed: where, its magic and declared size
Seen(kind, f, position, order) ==
    LET data == FileSlice(f, position, position + 8)
    IN [kind |-> kind, pos |-> position,
        magic |-> IF Len(data) >= 4 THEN SubSeq(data, 1, 4) ELSE <<>>,
        size |-> IF Len(data) = 8 /\ order # "None" /\ kind # "FFNT"
                 THEN UnpackI(order, SubSeq(data, 5, 8)) ELSE -1]

\* read() without its `if self.invalid: return` lines
OutcomeUnchecked(self, then) == IF self.raised # "" THEN "raised" ELSE then

\* Where read() goes after a step that left the object as self
Outcome(self, then) ==
    IF self.raised # "" THEN "raised" ELSE IF self.invalid THEN "done" ELSE then

\* lines 183-185 with the CMAP chain never entered
AfterCwdhSkip(self) == "data"

\* The chain read() walks after the TGLP header, or after the CWDH chain ended
AfterCwdh(self) == IF self.cmap_offset > 0 THEN "cmap" ELSE "data"

\* bffnt = Bffnt(...); bffnt.read(file): lines 149-156
ReadHeader ==
    /\ \/ pc = "saved"
       \/ pc = "done" /\ nreads < MaxReads
    /\ \E data \in {FileSlice(disk, 0, FFNT_HEADER_SIZE)} :
       \E self \in {parse_header([NewBffnt EXCEPT !.file_size = disk.len], data)} :
          /\ rd' = self
          /\ hist' = <<Seen("FFNT", disk, 0, self.order)>>
          /\ pc' = Outcome(self, "finf")
    /\ nreads' = nreads + 1
    /\ UNCHANGED <<px, tv, etc, obj, png, disk, wr, cls, edited, manifest>>

\* lines 158-160
ReadFinf ==
    /\ pc = "finf"
    /\ \E data \in {FileSlice(disk, FFNT_HEADER_SIZE, FFNT_HEADER_SIZE + FINF_HEADER_SIZE)} :
       \E self \in {parse_finf(rd, data)} :
          /\ rd' = self
          /\ hist' = Append(hist, Seen("FINF", disk, FFNT_HEADER_SIZE, rd.order))
          /\ pc' = Outcome(self, "tglp")
    /\ UNCHANGED <<px, tv, etc, obj, png, disk, wr, cls, edited, nreads, manifest>>

\* lines 162-169
ReadTglpHeader ==
    /\ pc = "tglp"
    /\ \E position \in {rd.tglp_offset - 8} :
       \E data \in {FileSlice(disk, position, position + TGLP_HEADER_SIZE)} :
       \E self \in {parse_tglp_header(rd, data)} :
          /\ rd' = [self EXCEPT !.next =
                        IF self.cwdh_offset > 0 THEN self.cwdh_offset
                        ELSE self.cmap_offset]
          /\ hist' = Append(hist, Seen("TGLP", disk, position, rd.order))
          /\ pc' = Outcome(self, IF self.cwdh_offset > 0 THEN "cwdh" ELSE AfterCwdh(self))
    /\ UNCHANGED <<px, tv, etc, obj, png, disk, wr, cls, edited, nreads, manifest>>

\* How many records of a kind the current read() has parsed
Parsed(h, kind) == Cardinality({i \in 1..Len(h) : h[i].kind = kind})

\* lines 170-182: one pass of the `while cwdh > 0` loop
ReadCwdh ==
    /\ pc = "cwdh"
    /\ Parsed(hist, "CWDH") < MaxChain
    /\ \E position \in {rd.next - 8} :
       \E header \in {FileSlice(disk, position, position + CWDH_HEADER_SIZE)} :
       \E r \in {parse_cwdh_header(rd, cls.cwdh_sections, header)} :
       \E ok \in {r.ret # -1} :
       \E data \in {IF ok
                    THEN FileSlice(disk, position + CWDH_HEADER_SIZE,
                                   position + r.sections[Len(r.sections)].size)
                    ELSE <<>>} :
       \E d \in {IF ok THEN parse_cwdh_data(r.sections[Len(r.sections)], data)
                 ELSE [raised |-> "", data |-> <<>>]} :
       \E self \in {IF r.ret = -1 /\ r.self.raised = ""
                    THEN [r.self EXCEPT !.invalid = TRUE]
                    ELSE IF ~ok THEN r.self
                    ELSE IF d.raised # "" THEN [r.self EXCEPT !.raised = d.raised]
                    ELSE [r.self EXCEPT !.next = IF r.ret > 0 THEN r.ret
                                                 ELSE r.self.cmap_offset]} :
          /\ rd' = self
          /\ cls' = [cls EXCEPT !.cwdh_sections =
                        IF ok /\ d.raised = ""
                        THEN [r.sections EXCEPT ![Len(r.sections)].data = d.data]
                        ELSE r.sections]
          /\ hist' = Append(hist, Seen("CWDH", disk, position, rd.order))
          /\ pc' = Outcome(self, IF r.ret > 0 THEN "cwdh" ELSE AfterCwdh(self))
    /\ UNCHANGED <<px, tv, etc, obj, png, disk, wr, edited, nreads, manifest>>

\* lines 183-191: one pass of the `while cmap > 0` loop
ReadCmap ==
    /\ pc = "cmap"
    /\ Parsed(hist, "CMAP") < MaxChain
    /\ \E position \in {rd.next - 8} :
       \E header \in {FileSlice(disk, position, position + CMAP_HEADER_SIZE)} :
       \E r \in {parse_cmap_header(rd, cls.cmap_sections, header)} :
       \E ok \in {r.self.raised = "" /\ ~r.self.invalid} :
       \E data \in {IF ok
                    THEN FileSlice(disk, position + CMAP_HEADER_SIZE,
                                   position + r.sections[Len(r.sections)].size)
                    ELSE <<>>} :
       \E d \in {IF ok THEN parse_cmap_data(rd.order, r.sections[Len(r.sections)], data)
                 ELSE [raised |-> "", info |-> [size |-> 0]]} :
       \E self \in {IF ~ok THEN r.self
                    ELSE IF d.raised # "" THEN [r.self EXCEPT !.raised = d.raised]
                    ELSE [r.self EXCEPT !.next = r.ret]} :
          /\ rd' = self
          /\ cls' = [cls EXCEPT !.cmap_sections =
                        IF ok /\ d.raised = ""
                        THEN [r.sections EXCEPT ![Len(r.sections)] = d.info]
                        ELSE r.sections]
          /\ hist' = Append(hist, Seen("CMAP", disk, position, rd.order))
          /\ pc' = Outcome(self, IF r.ret > 0 THEN "cmap" ELSE "data")
    /\ UNCHANGED <<px, tv, etc, obj, png, disk, wr, edited, nreads, manifest>>

\* line 194: self._parse_tglp_data(data)
ReadTglpData ==
    /\ pc = "data"
    /\ \E r \in {parse_tglp_data(rd.tglp, rd.order, disk)} :
          /\ rd' = [rd EXCEPT !.raised = r.raised, !.sheets = r.sheets]
          /\ hist' = Append(hist, [kind |-> "DATA", pos |-> rd.tglp.sheetOffset,
                                   magic |-> <<>>, size |-> -1])
          /\ pc' = IF r.raised # "" THEN "raised" ELSE "done"
    /\ UNCHANGED <<px, tv, etc, obj, png, disk, wr, cls, edited, nreads, manifest>>

Next ==
    \/ Load
    \/ Save
    \/ Corrupt
    \/ ReadHeader
    \/ ReadFinf
    \/ ReadTglpHeader
    \/ ReadCwdh
    \/ ReadCmap
    \/ ReadTglpData

Spec == Init /\ [][Next]_vars

-----------------------------------------------------------------------------
(* The codec specification: _get_tglp_pixel_data, _get_pixel_data,         *)
(* visit_pixels and _decompress_etc1 applied to inputs drawn in the        *)
(* initial state                                                           *)

\* Channel values of the pixels tried: 0 and 255 are exact in every format,
\* 17 only in 4 and 8 bits, 132 only in 5 and 8 bits
Chan == {0, 17, 132, 255}

\* The formats the two pixel functions handle themselves (ETC1 is decompressed
\* elsewhere)
PixelFormats == Formats \ {"ETC1", "ETC1A4"}

\* Sheet widths and heights traversed
Dims == {8, 16, 24}

\* The bytes _get_pixel_data reads for pixel `index` are bytes_: they stand at
\* index * n for an n-byte format, at index // 2 for a 4-bit one
Placed(format_, index, bytes_) ==
    Zeros(IF format_size(format_) = 4 THEN index \div 2 ELSE index * Len(bytes_))
        \o bytes_

InitCodec ==
    /\ obj = ObjIn("<", MinimalCwdh, MinimalCmap, "RGBA8")
    /\ png = <<ZeroImage>>
    /\ disk = EmptyFile
    /\ wr = NoSave
    /\ cls = [cwdh_sections |-> <<>>, cmap_sections |-> <<>>]
    /\ rd = NewBffnt
    /\ pc = "off"
    /\ hist = <<>>
    /\ edited = FALSE
    /\ nreads = 0
    /\ manifest = NoManifest
    /\ \/ /\ tv = NoTv
          /\ etc = NoEtc
          /\ \E f \in PixelFormats, r \in Chan, g \in Chan, b \in Chan, a \in Chan,
                i \in 0..MaxIndex :
                px = [fmt |-> f, p |-> <<r, g, b, a>>, index |-> i, data |-> <<>>,
                      out |-> <<0, 0, 0, 0>>, stage |-> "in"]
       \/ /\ px = NoPx
          /\ etc = NoEtc
          /\ \E w \in Dims, h \in Dims, f \in {"RGBA8", "A4"}, short \in BOOLEAN :
                tv = [width |-> w, height |-> h, fmt |-> f, len_bmp |-> w * h,
                      len_data |-> IF short THEN (w * h * format_size(f)) \div 16
                                   ELSE (w * h * format_size(f)) \div 8,
                      visits |-> <<>>, stage |-> "in"]
       \/ /\ px = NoPx
          /\ tv = NoTv
          /\ \E order \in {"<", ">"}, red \in EtcColourBytes, green \in {0, 7, 251},
                blue \in {0, 132}, flags \in EtcFlagBytes, sel \in EtcSelectorBytes,
                shape \in {<<"ETC1", 8, 8, 0>>, <<"ETC1A4", 8, 8, 0>>,
                           <<"ETC1", 6, 3, 0>>, <<"ETC1", 8, 8, 1>>} :
                etc = [fmt |-> shape[1], order |-> order,
                       width |-> shape[2], height |-> shape[3],
                       data |-> LET d == EtcSheetData(order, shape[1],
                                                      <<red, green, blue, flags>> \o sel)
                                IN SubSeq(d, 1, Len(d) - shape[4]),
                       bmp |-> <<>>, stage |-> "in"]

\* bytes_ = self._get_tglp_pixel_data(bmp, index, format_), bmp[index] being p
Encode ==
    /\ px.stage = "in"
    /\ \E bytes_ \in {get_tglp_pixel_data([k \in 1..(MaxIndex + 1) |-> px.p],
                                          px.index, px.fmt)} :
          px' = IF Len(bytes_) = 0 THEN [px EXCEPT !.stage = "raised"]
                ELSE [px EXCEPT !.data = Placed(px.fmt, px.index, bytes_),
                                !.stage = "encoded"]
    /\ UNCHANGED <<tv, etc, obj, png, disk, wr, cls, rd, pc, hist, edited, nreads, manifest>>

\* self._get_pixel_data(format_, data, index) on the bytes Encode left
Decode ==
    /\ px.stage = "encoded"
    /\ \E out \in {get_pixel_data(px.fmt, px.data, px.index)} :
          px' = IF Len(out) # 4 THEN [px EXCEPT !.stage = "raised"]
                ELSE [px EXCEPT !.out = out, !.stage = "decoded"]
    /\ UNCHANGED <<tv, etc, obj, png, disk, wr, cls, rd, pc, hist, edited, nreads, manifest>>

\* self.visit_pixels(visitor, width, height, format_, bmp, sheet_data)
Traverse ==
    /\ tv.stage = "in"
    /\ tv' = [tv EXCEPT !.visits = visit_pixels(tv.width, tv.height, tv.fmt,
                                                tv.len_bmp, tv.len_data),
                        !.stage = "done"]
    /\ UNCHANGED <<px, etc, obj, png, disk, wr, cls, rd, pc, hist, edited, nreads, manifest>>

\* bmp_data = self._decompress_etc1(sheet)
Decompress ==
    /\ etc.stage = "in"
    /\ \E r \in {decompress_etc1([width |-> etc.width, height |-> etc.height,
                                   format |-> etc.fmt], etc.order, etc.data)} :
          etc' = [etc EXCEPT !.bmp = r.bmp,
                             !.stage = IF r.raised # "" THEN "raised" ELSE "done"]
    /\ UNCHANGED <<px, tv, obj, png, disk, wr, cls, rd, pc, hist, edited, nreads, manifest>>

NextCodec ==
    \/ Encode
    \/ Decode
    \/ Traverse
    \/ Decompress

SpecCodec == InitCodec /\ [][NextCodec]_vars

-----------------------------------------------------------------------------
(* Properties                                                              *)

\* The records save() wrote of one kind, in the order written
Records(kind) == SelectSeq(wr.layout, LAMBDA e : e.kind = kind)

\* The sections the current read() has parsed of one kind, in the order parsed
Visited(kind) == SelectSeq(hist, LAMBDA e : e.kind = kind)

\* The sections the current read() has parsed, the container header aside
SectionsSeen == SelectSeq(hist, LAMBDA e : e.kind \in {"FINF", "TGLP", "CWDH", "CMAP"})

\* The 32-bit field at pos of the file, in the order save() wrote it
Field32(pos) == UnpackI(obj.order, FileSlice(disk, pos, pos + 4))

MagicOfKind(kind) ==
    CASE kind = "FINF" -> FINF_HEADER_MAGIC
      [] kind = "TGLP" -> TGLP_HEADER_MAGIC
      [] kind = "CWDH" -> CWDH_HEADER_MAGIC
      [] kind = "CMAP" -> CMAP_HEADER_MAGIC

\* save() returned normally and the file is as it left it
SavedIntact ==
    pc \notin {"created", "load_failed", "exit", "loaded", "save_failed", "off"} /\ ~edited

\* read() returned after its last statement
ReadComplete == pc = "done" /\ ~rd.invalid

\* The container of C1, little-endian
MinimalContainer ==
    /\ obj.order = "<"
    /\ obj.cwdh_sections = MinimalCwdh
    /\ obj.cmap_sections = MinimalCmap
    /\ obj.tglp.sheet.format = "RGBA8"

\* C1: the minimal container (one 8x8 RGBA8 sheet, one width range [0,0] with
\* the triple (0, 8, 8), one Scan entry 'A' -> 0) written by save and parsed by
\* read comes back with equal font info, texture fields, width triples, map
\* entries and sheet pixels.
C1_RoundTrip ==
    (MinimalContainer /\ ~edited /\ nreads = 1 /\ pc \in {"done", "raised"}) =>
        /\ pc = "done"
        /\ ~rd.invalid
        /\ rd.font_info = obj.font_info
        /\ rd.tglp.glyph = obj.tglp.glyph
        /\ rd.tglp.sheetCount = obj.tglp.sheetCount
        /\ rd.tglp.sheet.cols = obj.tglp.sheet.cols
        /\ rd.tglp.sheet.rows = obj.tglp.sheet.rows
        /\ rd.tglp.sheet.width = obj.tglp.sheet.width
        /\ rd.tglp.sheet.height = obj.tglp.sheet.height
        /\ rd.tglp.sheet.format = obj.tglp.sheet.format
        /\ Len(cls.cwdh_sections) = 1
        /\ cls.cwdh_sections[1].start = 0
        /\ cls.cwdh_sections[1].end = 0
        /\ cls.cwdh_sections[1].data = obj.cwdh_sections[1].data
        /\ Len(cls.cmap_sections) = 1
        /\ cls.cmap_sections[1].entries = obj.cmap_sections[1].entries
        /\ Len(rd.sheets) = 1
        /\ rd.sheets[1].data = png[1].pixels

\* What C2 calls a mismatch at a section read() parsed: its magic, its declared
\* size where the format fixes one, the version, the recorded file length
BadSection(e) ==
    CASE e.kind = "FFNT" ->
            /\ rd.order # "None"
            /\ \/ e.magic \notin FFNT_HEADER_MAGIC
               \/ UnpackH(rd.order, FileSlice(disk, 6, 8)) # FFNT_HEADER_SIZE
               \/ UnpackI(rd.order, FileSlice(disk, 8, 12)) \notin VERSIONS
               \/ UnpackI(rd.order, FileSlice(disk, 12, 16)) # disk.len
      [] e.kind = "FINF" -> e.magic # FINF_HEADER_MAGIC \/ e.size # FINF_HEADER_SIZE
      [] e.kind = "TGLP" -> e.magic # TGLP_HEADER_MAGIC
      [] e.kind = "CWDH" -> e.magic # CWDH_HEADER_MAGIC
      [] e.kind = "CMAP" -> e.magic # CMAP_HEADER_MAGIC
      [] OTHER -> FALSE

\* C2: a section read() parsed that has a magic, size, version or file-length
\* mismatch leaves the container invalid and is the last thing read() parsed.
C2_MismatchAborts ==
    \A i \in 1..Len(hist) :
        BadSection(hist[i]) => (rd.invalid /\ i = Len(hist))

\* The 8-bit values an n-bit channel expands to (the high bits repeated below)
Exact4 == {17 * v : v \in 0..15}

Exact5 == {8 * v + (v \div 4) : v \in 0..31}

Exact6 == {4 * v + (v \div 16) : v \in 0..63}

NonLossy == {"RGBA8", "RGB8", "RGBA5551", "RGB565", "RGBA4", "A8", "A4"}

\* The RGBA8 pixels a non-lossy format can hold exactly
Representable(f, p) ==
    CASE f = "RGBA8" -> TRUE
      [] f = "RGB8" -> p[4] = 255
      [] f = "RGBA5551" ->
            p[1] \in Exact5 /\ p[2] \in Exact5 /\ p[3] \in Exact5 /\ p[4] \in {0, 255}
      [] f = "RGB565" ->
            p[1] \in Exact5 /\ p[2] \in Exact6 /\ p[3] \in Exact5 /\ p[4] = 255
      [] f = "RGBA4" -> \A c \in 1..4 : p[c] \in Exact4
      [] f = "A8" -> p[1] = 255 /\ p[2] = 255 /\ p[3] = 255
      [] f = "A4" -> p[1] = 255 /\ p[2] = 255 /\ p[3] = 255 /\ p[4] \in Exact4
      [] OTHER -> FALSE

\* C3: for a non-lossy format and a pixel it can hold exactly, decoding the
\* bytes of the encoded pixel at the same index gives the pixel back.
C3_CodecRoundTrip ==
    (px.stage = "decoded" /\ px.fmt \in NonLossy /\ Representable(px.fmt, px.p)) =>
        px.out = px.p

\* visit_pixels was given a bitmap and a buffer that hold the whole sheet
WholeSheet ==
    /\ tv.stage = "done"
    /\ tv.len_bmp = tv.width * tv.height
    /\ tv.len_data = (tv.width * tv.height * format_size(tv.fmt)) \div 8

\* C4: for a width and height that are multiples of 8, visit_pixels visits each
\* pixel position (x, y) of the sheet exactly once and each storage slot in
\* 0 .. width*height - 1 exactly once.
C4_TraversalBijection ==
    WholeSheet =>
        LET n == Len(tv.visits)
        IN /\ n = tv.width * tv.height
           /\ \A x \in 0..(tv.width - 1), y \in 0..(tv.height - 1) :
                 Cardinality({i \in 1..n : /\ tv.visits[i].pixel_x = x
                                           /\ tv.visits[i].pixel_y = y}) = 1
           /\ \A slot \in 0..(tv.width * tv.height - 1) :
                 Cardinality({i \in 1..n : tv.visits[i].sheet_data_pos = slot}) = 1

\* A 24x16 sheet (three tiles by two) has been traversed whole
C4_Witness ==
    WholeSheet /\ tv.width = 24 /\ tv.height = 16 /\ Len(tv.visits) = 384

\* C5: after _parse_header the marker bytes FF FE have resolved to '<', FE FF to
\* '>'; with any other marker the object is invalid, its order still unset, and
\* neither another header field nor a section has been parsed.
C5_ByteOrderMarker ==
    hist # <<>> =>
        LET bom == FileSlice(disk, 4, 6)
        IN CASE bom = <<255, 254>> -> rd.order = "<"
             [] bom = <<254, 255>> -> rd.order = ">"
             [] OTHER -> /\ rd.order = "None"
                         /\ rd.invalid
                         /\ pc = "done"
                         /\ Len(hist) = 1
                         /\ rd.version = -1
                         /\ rd.sections = -1
                         /\ rd.filetype = ""
                         /\ ~rd.has_font_info

\* A file whose marker is neither value has been read
C5_Witness ==
    /\ hist # <<>>
    /\ FileSlice(disk, 4, 6) = <<0, 0>>
    /\ rd.invalid
    /\ pc = "done"

\* read() has left the `while cwdh > 0` loop without an error
CwdhWalkEnded == pc \in {"cmap", "data", "done"} /\ ~rd.invalid

\* The nextOffset field of a WidthRange record read() parsed
CwdhNextField(e) == UnpackI(rd.order, FileSlice(disk, e.pos + 12, e.pos + 16))

\* C6: the walk of the WidthRange chain ends at the first record whose
\* nextOffset is 0 and at no earlier one, so a chain save() wrote of one record
\* is walked in exactly one visit and a chain of two in exactly two.
C6_WidthChainWalk ==
    CwdhWalkEnded =>
        LET v == Visited("CWDH")
        IN /\ \A i \in 1..Len(v) : (CwdhNextField(v[i]) = 0) <=> (i = Len(v))
           /\ ~edited => Len(v) = Len(obj.cwdh_sections)

\* The chain of two records has been walked, and so has the chain of one
C6_Witness ==
    /\ CwdhWalkEnded
    /\ ~edited
    /\ Len(obj.cwdh_sections) = 2
    /\ Len(Visited("CWDH")) = 2

\* C7: a chain whose next-offsets lead back to a record already parsed is not
\* followed: read() parses no chain record a third time.
C7_ChainTerminates ==
    \A i \in 1..Len(hist) :
        hist[i].kind \in {"CWDH", "CMAP"} =>
            Cardinality({j \in 1..Len(hist) : /\ hist[j].kind = hist[i].kind
                                              /\ hist[j].pos = hist[i].pos}) <= 2

\* What C8 says a successful read() has visited, N being the recorded count
SectionCounts ==
    /\ Len(Visited("FINF")) = 1
    /\ Len(Visited("TGLP")) = 1
    /\ Len(Visited("CWDH")) >= 1
    /\ Len(Visited("CMAP")) >= 1
    /\ Len(SectionsSeen) = rd.sections

\* C8 as stated: a successful read() of a container whose header records
\* sectionCount = N has visited one FontInfo, one Texture, at least one
\* WidthRange, at least one CharMapRange, and N sections in all.
C8_AnyContainer == ReadComplete => SectionCounts

\* C8 amended: the same of a container as save() wrote it.
C8_SavedContainer == (ReadComplete /\ ~edited) => SectionCounts

\* A container of two width ranges and two map ranges has been read whole
C8_Witness ==
    /\ ReadComplete
    /\ ~edited
    /\ rd.sections = 6
    /\ Len(Visited("CWDH")) = 2
    /\ Len(Visited("CMAP")) = 2

\* C9: every WidthRange and CharMapRange record save() wrote ends on a multiple
\* of 4, the bytes after its payload are zero, and its size field counts them.
C9_PaddedToBoundary ==
    SavedIntact =>
        \A i \in 1..Len(wr.layout) :
            wr.layout[i].kind \in {"CWDH", "CMAP"} =>
                /\ wr.layout[i].end % 4 = 0
                /\ \A k \in wr.layout[i].payload_end..(wr.layout[i].end - 1) :
                      ByteAt(disk, k) = 0
                /\ Field32(wr.layout[i].start + 4)
                     = wr.layout[i].end - wr.layout[i].start

\* The next-offset fields of the records of a chain: each the start of the next
\* record plus 8, the last 0
ChainLinked(recs, at) ==
    \A i \in 1..Len(recs) :
        Field32(recs[i].start + at)
            = IF i < Len(recs) THEN recs[i + 1].start + 8 ELSE 0

\* C10: in a file save() wrote, the three references of FontInfo and every
\* next-offset are the start of the section referred to plus 8, the last record
\* of each chain stores 0, and the sections read() parses are the sections
\* written, in the order written, each found at its magic; a read() that
\* completes has parsed them all.
C10_OffsetsSkipEight ==
    SavedIntact =>
        /\ Field32(FFNT_HEADER_SIZE + 20) = Records("TGLP")[1].start + 8
        /\ Field32(FFNT_HEADER_SIZE + 24) = Records("CWDH")[1].start + 8
        /\ Field32(FFNT_HEADER_SIZE + 28) = Records("CMAP")[1].start + 8
        /\ ChainLinked(Records("CWDH"), 12)
        /\ ChainLinked(Records("CMAP"), 16)
        /\ Len(SectionsSeen) <= Len(wr.layout)
        /\ \A i \in 1..Len(SectionsSeen) :
              /\ SectionsSeen[i].kind = wr.layout[i].kind
              /\ SectionsSeen[i].pos = wr.layout[i].start
              /\ SectionsSeen[i].magic = MagicOfKind(wr.layout[i].kind)
        /\ ReadComplete => Len(SectionsSeen) = Len(wr.layout)

\* A file of two width ranges and two map ranges has been written and read whole
C10_Witness ==
    /\ SavedIntact
    /\ ReadComplete
    /\ Len(Records("CWDH")) = 2
    /\ Len(Records("CMAP")) = 2
    /\ Len(SectionsSeen) = 6


-----------------------------------------------------------------------------
\* C11: when save() gives up on a sheet image whose dimensions differ from the
\* sheet's declared width and height (the return at line 412), the output file
\* holds no byte written by that save.
C11_NoPartialOutput ==
    (pc = "save_failed" /\ wr.invalid) => disk.len = 0

-----------------------------------------------------------------------------
\* The CMAP records of the file being read whose method field is none of the
\* three mapping methods, as the current read() has parsed them
UnknownMethod ==
    {i \in 1..Len(hist) :
        /\ hist[i].kind = "CMAP"
        /\ UnpackH(rd.order, FileSlice(disk, hist[i].pos + 12, hist[i].pos + 14))
              \notin {MAPPING_DIRECT, MAPPING_TABLE, MAPPING_SCAN}}

\* C12: a read() that has parsed a CharMapRange record whose method is not
\* Direct, Table or Scan has marked the container invalid and does not go on
\* to parse a further section or to decode the sheets.
C12_UnknownMethodAborts ==
    (UnknownMethod # {} /\ rd.raised = "") =>
        /\ rd.invalid
        /\ \A i \in UnknownMethod : i = Len(hist)

-----------------------------------------------------------------------------
LumaFormats == {"L8", "LA8", "L4", "LA4"}

\* C13: for a luma-bearing format, decoding the bytes of the encoded pixel p
\* gives red = green = blue = the luma of p (the weighted sum truncated to an
\* integer).
C13_LumaRoundTrip ==
    (px.stage = "decoded" /\ px.fmt \in LumaFormats) =>
        /\ px.out[1] = Luma(px.p[1], px.p[2], px.p[3])
        /\ px.out[2] = px.out[1]
        /\ px.out[3] = px.out[1]

-----------------------------------------------------------------------------
\* The bytes of block k (0..3) of the one-tile ETC1 sheet that was decompressed
EtcBlockBytes(k) == SubSeq(etc.data, 8 * k + 1, 8 * k + 8)

\* The pixels of the bitmap that block k of a one-tile sheet covers
EtcBlockPixels(k) ==
    {y * etc.width + x + 1 :
        x \in {v \in (4 * (k % 2))..(4 * (k % 2) + 3) : v < etc.width},
        y \in {v \in (4 * (k \div 2))..(4 * (k \div 2) + 3) : v < etc.height}}

\* C14: an all-zero 64-bit ETC1 block (no alpha plane) decodes to a uniform
\* block: each of its pixels is the base colour (0, 0, 0) plus the first
\* modifier of table row 0, with alpha 255.
C14_ZeroBlockUniform ==
    (etc.stage = "done" /\ etc.fmt = "ETC1") =>
        \A k \in 0..3 :
            EtcBlockBytes(k) = Zeros(8) =>
                \A i \in EtcBlockPixels(k) :
                    etc.bmp[i] = <<ETC_MODIFIERS[1][1], ETC_MODIFIERS[1][1],
                                   ETC_MODIFIERS[1][1], 255>>

\* An 8x8 ETC1 sheet of four all-zero blocks has been decompressed, so have
\* sheets whose second block alone is zero
C14_Witness ==
    /\ etc.stage = "done" /\ etc.fmt = "ETC1" /\ etc.width = 8 /\ etc.height = 8
    /\ etc.data = Zeros(32)
    /\ Cardinality(EtcBlockPixels(3)) = 16
    /\ \A i \in 1..64 : etc.bmp[i] = <<2, 2, 2, 255>>

-----------------------------------------------------------------------------
\* The place of each kind of section in the order read() parses them
Rank(kind) ==
    CASE kind = "FFNT" -> 1 [] kind = "FINF" -> 2 [] kind = "TGLP" -> 3
      [] kind = "CWDH" -> 4 [] kind = "CMAP" -> 5 [] kind = "DATA" -> 6

\* The nextOffset field of a CharMapRange record read() parsed
CmapNextField(e) == UnpackI(rd.order, FileSlice(disk, e.pos + 16, e.pos + 20))

\* The chain of a kind has been parsed to its end: the last record parsed has
\* nextOffset 0, or FontInfo referred to no record and none was parsed
ChainEnded(kind) ==
    LET v == Visited(kind)
        head == IF kind = "CWDH" THEN rd.cwdh_offset ELSE rd.cmap_offset
    IN IF Len(v) = 0 THEN head = 0
       ELSE (IF kind = "CWDH" THEN CwdhNextField(v[Len(v)])
             ELSE CmapNextField(v[Len(v)])) = 0

\* C15: read() parses the header first, FontInfo second, the texture header
\* third, then WidthRange records, then CharMapRange records, and decodes the
\* sheets last and once, after both chains were parsed to their end; once the
\* object is invalid read() has returned: the section that made it invalid is
\* the last one parsed and no sheet was decoded.
C15_SectionOrder ==
    /\ \A i \in 1..Len(hist) :
          /\ i <= 3 => Rank(hist[i].kind) = i
          /\ i > 3 => Rank(hist[i].kind) > 3
          /\ i < Len(hist) => Rank(hist[i].kind) <= Rank(hist[i + 1].kind)
          /\ (i < Len(hist) /\ hist[i].kind = "DATA") => FALSE
    /\ Len(Visited("DATA")) > 0 => (ChainEnded("CWDH") /\ ChainEnded("CMAP"))
    /\ rd.invalid => (pc = "done" /\ Len(Visited("DATA")) = 0)

\* A read() has gone through a container of two WidthRange and two
\* CharMapRange records and decoded its sheet
C15_Witness ==
    /\ pc = "done" /\ ~rd.invalid
    /\ [i \in 1..Len(hist) |-> hist[i].kind]
         = <<"FFNT", "FINF", "TGLP", "CWDH", "CWDH", "CMAP", "CMAP", "DATA">>

-----------------------------------------------------------------------------
\* C16: a container save() wrote with byte order O, read as written, has its
\* marker resolved by _parse_header to the same order O.
C16_ByteOrderRoundTrip ==
    (hist # <<>> /\ ~edited) => rd.order = obj.order

-----------------------------------------------------------------------------
\* save() has written the sheet of the object, and the file is as it left it
SheetWritten ==
    pc \notin {"created", "load_failed", "exit", "loaded", "save_failed"} /\ ~edited

\* C17: in a format of 16, 24 or 32 bits per pixel the bytes of the pixel that
\* the traversal assigns to storage slot s stand in the written sheet at byte
\* offset s * (bits per pixel / 8), where _sheet_to_bitmap reads slot s; and
\* an 8x8 RGBA8 sheet comes back from the file as the bitmap that was written.
C17_SlotAddressing ==
    /\ (SheetWritten /\ format_size(obj.tglp.sheet.format) \in {16, 24, 32}) =>
          LET format_ == obj.tglp.sheet.format
              n == format_size(format_) \div 8
              visits == visit_pixels(8, 8, format_, 64, 64 * n)
          IN \A i \in 1..Len(visits) :
                FileSlice(disk, TGLP_DATA_OFFSET + visits[i].sheet_data_pos * n,
                                TGLP_DATA_OFFSET + visits[i].sheet_data_pos * n + n)
                    = get_tglp_pixel_data(png[1].pixels, visits[i].bmp_pos, format_)
    /\ (SheetWritten /\ obj.tglp.sheet.format = "RGBA8" /\ Len(rd.sheets) = 1) =>
          rd.sheets[1].data = png[1].pixels

-----------------------------------------------------------------------------
\* C18: in the bitmap read() produces for a sheet, the pixel at index
\* x + y * width (width the declared sheet width) is the pixel decoded from the
\* storage slot that the traversal of the padded sheet assigns to (x, y), for
\* every position inside the declared bounds whose slot lies in the sheet's
\* bytes; read() ends without an error for such a sheet.
C18_UnpaddedAddressing ==
    (pc = "done" /\ ~rd.invalid /\ Len(rd.sheets) = 1) =>
        LET sheet == rd.tglp.sheet
            width == PowerOfTwoBoundary(sheet.width)
            height == PowerOfTwoBoundary(sheet.height)
            data == FileSlice(disk, rd.tglp.sheetOffset, rd.tglp.sheetOffset + sheet.size)
            visits == visit_pixels(width, height, sheet.format, width * height, Len(data))
        IN \A i \in 1..Len(visits) :
              (visits[i].pixel_x < sheet.width /\ visits[i].pixel_y < sheet.height) =>
                  rd.sheets[1].data[visits[i].pixel_x + visits[i].pixel_y * sheet.width + 1]
                      = get_pixel_data(sheet.format, data, visits[i].sheet_data_pos)

-----------------------------------------------------------------------------
\* The value the visitor of _bitmap_to_sheet ORs into the shared byte for the
\* 4-bit pixel that was encoded
NibbleValue == px.data[Len(px.data)]

\* C19: for L4 and A4 the value ORed into the storage byte fits in one byte
\* and has no bit outside the nibble of the pixel's index parity (low for an
\* even index, high for an odd one), so ORing it into a byte that holds the
\* other pixel's nibble leaves that nibble as it was.
C19_NibbleOnly ==
    (px.stage \in {"encoded", "decoded"} /\ px.fmt \in {"L4", "A4"}) =>
        /\ NibbleValue <= 255
        /\ IF px.index % 2 = 1 THEN NibbleValue % 16 = 0 ELSE NibbleValue < 16
        /\ \A other \in {0, 5, 15} :
              IF px.index % 2 = 1
              THEN BitOr(other, NibbleValue) % 16 = other
              ELSE BitOr(16 * other, NibbleValue) \div 16 = other

-----------------------------------------------------------------------------
\* (c << (8 - n)) | (c >> (2n - 8)): an n-bit channel value expanded to 8 bits
Expand(c, n) == BitOr(Shl(c, 8 - n), Shr(c, 2 * n - 8))

\* The 16-bit word of the two bytes the encoder returned, first byte high
StoredWord == LET n == Len(px.data) IN 256 * px.data[n - 1] + px.data[n]

\* C20: for RGBA5551 and RGB565 the encoder stores channel // 2^(8 - bits) of
\* each channel (red in the top 5 bits, then green, then blue, then the alpha
\* bit of RGBA5551), and the decoder returns each stored n-bit value c expanded
\* to (c << (8 - n)) | (c >> (2n - 8)).
C20_ChannelScaling ==
    /\ (px.stage \in {"encoded", "decoded"} /\ px.fmt = "RGBA5551") =>
          StoredWord = 2048 * (px.p[1] \div 8) + 64 * (px.p[2] \div 8)
                         + 2 * (px.p[3] \div 8) + (IF px.p[4] > 0 THEN 1 ELSE 0)
    /\ (px.stage \in {"encoded", "decoded"} /\ px.fmt = "RGB565") =>
          StoredWord = 2048 * (px.p[1] \div 8) + 32 * (px.p[2] \div 4) + (px.p[3] \div 8)
    /\ (px.stage = "decoded" /\ px.fmt = "RGBA5551") =>
          /\ px.out[1] = Expand(px.p[1] \div 8, 5)
          /\ px.out[2] = Expand(px.p[2] \div 8, 5)
          /\ px.out[3] = Expand(px.p[3] \div 8, 5)
    /\ (px.stage = "decoded" /\ px.fmt = "RGB565") =>
          /\ px.out[1] = Expand(px.p[1] \div 8, 5)
          /\ px.out[2] = Expand(px.p[2] \div 4, 6)
          /\ px.out[3] = Expand(px.p[3] \div 8, 5)


-----------------------------------------------------------------------------
\* save() about to write its first width range to an empty file
BeforeCwdh ==
    [file |-> EmptyFile, position |-> 0, section_count |-> 0, layout |-> <<>>,
     raised |-> "", invalid |-> FALSE, sheet_size |-> 0]

\* What save() does with the width table that holds the one triple t at glyph
\* index 0, as extract() writes a triple to the manifest and load() takes it
SavedTriple(t) ==
    SaveCwdh([order |-> rd.order, cwdh_sections |-> <<load_widths(0 :> t)>>],
             1, 0, BeforeCwdh)

\* C21: every triple that read() took from a width range record (a read that
\* ended without an error) is written by save() without an error, as the three
\* bytes the record held for it.
C21_TripleRoundTrip ==
    (ReadComplete /\ nreads = 1) =>
        \A k \in 1..Len(cls.cwdh_sections) :
            \A j \in 1..Len(cls.cwdh_sections[k].data) :
                LET at == Visited("CWDH")[k].pos + CWDH_HEADER_SIZE + 3 * (j - 1)
                    r == SavedTriple(cls.cwdh_sections[k].data[j])
                IN /\ r.raised = ""
                   /\ FileSlice(r.file, CWDH_HEADER_SIZE, CWDH_HEADER_SIZE + 3)
                        = FileSlice(disk, at, at + 3)


-----------------------------------------------------------------------------
\* The width table of the manifest load() opened, each triple of which
\* struct.pack('=bbb') takes
ManifestWidths ==
    /\ manifest # NoManifest
    /\ \A i \in DOMAIN manifest.glyphWidths :
          LET w == manifest.glyphWidths[i]
          IN FitsSByte(w.left) /\ FitsSByte(w.glyph) /\ FitsSByte(w.char)

\* C22: for a manifest width table, the width range load() builds holds
\* end - start + 1 triples, and save() after load() ends without an error and
\* has written, for every glyph index i of the manifest, the manifest's triple
\* for i at position i - start of the width range record.
C22_ManifestWidths ==
    /\ (ManifestWidths /\ pc \in {"loaded", "saved", "save_failed"}) =>
          LET cwdh == obj.cwdh_sections[1]
          IN Len(cwdh.data) = cwdh.end - cwdh.start + 1
    /\ (ManifestWidths /\ pc \in {"saved", "save_failed"} /\ ~edited) =>
          /\ wr.raised = ""
          /\ \A i \in DOMAIN manifest.glyphWidths :
                LET cwdh == obj.cwdh_sections[1]
                    w == manifest.glyphWidths[i]
                    at == wr.layout[2].end + CWDH_HEADER_SIZE + 3 * (i - cwdh.start)
                IN FileSlice(disk, at, at + 3)
                     = <<PackSByte(w.left), PackSByte(w.glyph), PackSByte(w.char)>>


-----------------------------------------------------------------------------
\* The first and last index in the header of the record read() parsed at e
RecordRange(e) ==
    <<UnpackH(rd.order, FileSlice(disk, e.pos + 8, e.pos + 10)),
      UnpackH(rd.order, FileSlice(disk, e.pos + 10, e.pos + 12))>>

\* C23: when read() has returned on a new object, the object's width range list
\* and map range list (self.cwdh_sections, self.cmap_sections: the lists of the
\* class) hold one record for each record of the chains this read() walked, in
\* that order, however many objects read a file before.
C23_NoCarryOver ==
    ReadComplete =>
        /\ Len(cls.cwdh_sections) = Len(Visited("CWDH"))
        /\ Len(cls.cmap_sections) = Len(Visited("CMAP"))
        /\ \A k \in 1..Len(Visited("CWDH")) :
              <<cls.cwdh_sections[k].start, cls.cwdh_sections[k].end>>
                  = RecordRange(Visited("CWDH")[k])
        /\ \A k \in 1..Len(Visited("CMAP")) :
              <<cls.cmap_sections[k].start, cls.cmap_sections[k].end>>
                  = RecordRange(Visited("CMAP")[k])


-----------------------------------------------------------------------------
\* C24: in the file of a save() that returned normally, the file size field of
\* the header (offset 0x0C) holds the number of bytes of the file, and the
\* section count field (offset 0x10) holds 2 plus the number of width range
\* records plus the number of map range records written.
C24_HeaderCounts ==
    (pc = "saved" /\ ~edited) =>
        /\ Field32(12) = disk.len
        /\ Field32(16) = 2 + Len(Records("CWDH")) + Len(Records("CMAP"))

\* save() has written a file of two width ranges and two map ranges,
\* big-endian, and its header records 6 sections
C24_Witness ==
    /\ pc = "saved"
    /\ ~edited
    /\ obj.order = ">"
    /\ Len(Records("CWDH")) = 2
    /\ Len(Records("CMAP")) = 2
    /\ Field32(16) = 6
    /\ Field32(12) = disk.len
    /\ disk.len > TGLP_DATA_OFFSET


-----------------------------------------------------------------------------
\* The 64-bit colour value of block k (0..3) of the one-tile sheet that was
\* decompressed: an ETC1A4 block holds its alpha plane first
EtcColourBits(k) ==
    LET block_size == IF etc.fmt = "ETC1A4" THEN 16 ELSE 8
    IN UnpackQ(etc.order, SubSeq(etc.data, (k + 1) * block_size - 7, (k + 1) * block_size))

\* The 5-bit base of a differential block plus its signed 3-bit delta, for the
\* channel whose fields start at bits base_at and delta_at
EtcSecondBase(pixels, base_at, delta_at) ==
    ShrMask(pixels, base_at, 5) + complement(ShrMask(pixels, delta_at, 3), 3)

\* The base colour of the sub-block that the pixel (x, y) of a block lies in,
\* and the modifier row of that sub-block
EtcSubBlock(pixels, x, y) ==
    LET first == IF ShrMask(pixels, ETC_ORIENTATION_BIT, 1) = 1 THEN y < 2 ELSE x < 2
    IN [color |-> IF first THEN EtcColors(pixels).color1 ELSE EtcColors(pixels).color2,
        table |-> ETC_MODIFIERS[ShrMask(pixels, IF first THEN ETC_TABLE1_OFFSET
                                                 ELSE ETC_TABLE2_OFFSET, 3) + 1]]

\* C25: every pixel decoded from a 64-bit ETC1 colour block, individual or
\* differential, has red, green and blue in 0..255, each the channel of its
\* sub-block's base colour plus one signed modifier of the sub-block's row
\* (the same for the three channels), clamped to 0..255; in a sheet without an
\* alpha plane its alpha is 255.
C25_ClampedChannels ==
    etc.stage = "done" =>
        \A k \in 0..3 :
            \A x \in 0..3, y \in 0..3 :
                LET px_x == 4 * (k % 2) + x
                    px_y == 4 * (k \div 2) + y
                    p == etc.bmp[px_y * etc.width + px_x + 1]
                    sub == EtcSubBlock(EtcColourBits(k), x, y)
                IN (px_x < etc.width /\ px_y < etc.height) =>
                      /\ \A c \in 1..3 : p[c] >= 0 /\ p[c] <= 255
                      /\ \E i \in 1..2, sign \in {1, -1} :
                            \A c \in 1..3 :
                                p[c] = Max(Min(sub.color[c] + sign * sub.table[i], 255), 0)
                      /\ etc.fmt = "ETC1" => p[4] = 255

\* An 8x8 ETC1 sheet has been decompressed whose first block is differential
\* with a red base of 31 + 3 = 34 and a green base of 0 - 1 = -1 in its second
\* sub-block, where a pixel came out with red 255 and green 0; its second
\* block is in individual mode
C25_Witness ==
    /\ etc.stage = "done" /\ etc.fmt = "ETC1" /\ etc.width = 8 /\ etc.height = 8
    /\ ShrMask(EtcColourBits(0), ETC_DIFFERENTIAL_BIT, 1) = 1
    /\ EtcSecondBase(EtcColourBits(0), ETC_DIFF_RED1_OFFSET, ETC_RED2_OFFSET) = 34
    /\ EtcSecondBase(EtcColourBits(0), ETC_DIFF_GREEN1_OFFSET, ETC_GREEN2_OFFSET) = -1
    /\ ShrMask(EtcColourBits(1), ETC_DIFFERENTIAL_BIT, 1) = 0
    /\ \E i \in 1..64 : etc.bmp[i][1] = 255 /\ etc.bmp[i][2] = 0 /\ etc.bmp[i][4] = 255

=============================================================================
